---------------------------- MODULE Spec2Model ----------------------------
(***************************************************************************)
(* Well-control and economic-shutdown decision engine of                   *)
(* WellInterfaceFluidSystem (opm-simulators), as a state machine.          *)
(*                                                                         *)
(* Numbers.  The code computes in double; the model computes in exact      *)
(* integers.  A rescale by a factor num/den is only offered when every     *)
(* product is again an integer (Representable), so no rounding is          *)
(* introduced by the model.                                                *)
(*                                                                         *)
(* Vectors over phases are functions on 0 .. np-1, as in the code.         *)
(***************************************************************************)
EXTENDS Integers, Sequences, FiniteSets, TLC

VARIABLES
    well,             \* the well object: well_ecl_ and the fields of WellInterfaceGeneric
    well_state,       \* WellState, every well's slot
    well_test_state,  \* WellTestState, the shut-in ledger
    log,              \* DeferredLogger: what the last call logged
    call              \* the last call of the engine: its inputs, the state before, its outcome

vars == <<well, well_state, well_test_state, log, call>>

-----------------------------------------------------------------------------
(* Bounds of the model *)

NumWells == 2
NumRanks == 2
MaxControls == 2
MaxTime == 2
MaxLimits == 2

-----------------------------------------------------------------------------
(* Phases and PhaseUsage *)

Aqua == "Aqua"
Liquid == "Liquid"
Vapour == "Vapour"
Water == Aqua
Oil == Liquid
Gas == Vapour
Phases == {Aqua, Liquid, Vapour}

\* phase_pos of an inactive phase is -1
ThreePhase ==
    [phase_used |-> [ph \in Phases |-> TRUE],
     phase_pos  |-> [ph \in Phases |-> CASE ph = Aqua -> 0 [] ph = Liquid -> 1 [] ph = Vapour -> 2],
     num_phases |-> 3]

OilWater ==
    [phase_used |-> [ph \in Phases |-> ph # Vapour],
     phase_pos  |-> [ph \in Phases |-> CASE ph = Aqua -> 0 [] ph = Liquid -> 1 [] ph = Vapour -> -1],
     num_phases |-> 2]

PhaseUsages == {ThreePhase, OilWater}

phaseUsage == well.pu
number_of_phases_ == well.pu.num_phases
index_of_well_ == well.index_of_well

Wells == 0 .. (NumWells - 1)
SubsetsUpTo(S, n) == {T \in SUBSET S : Cardinality(T) <= n}
PhaseIdx(pu) == 0 .. (pu.num_phases - 1)

-----------------------------------------------------------------------------
(* Control modes *)

InjectorCModes == {"RATE", "RESV", "BHP", "THP", "GRUP"}
ProducerCModes == {"ORAT", "WRAT", "GRAT", "LRAT", "RESV", "BHP", "THP", "GRUP"}
InjectorTypes == {"WATER", "OIL", "GAS", "MULTI"}

hasControl(controls, m) == m \in controls.cmodes

-----------------------------------------------------------------------------
(* RateConverter: surface rates to reservoir-voidage rates.  One          *)
(* coefficient per phase and (fip region, pvt region).                     *)

calcCoeff(fipreg, pvtreg) == [p \in PhaseIdx(phaseUsage) |-> well.resv_coeff]

calcReservoirVoidageRates(fipreg, pvtreg, surface_rates) ==
    [p \in PhaseIdx(phaseUsage) |-> calcCoeff(fipreg, pvtreg)[p] * surface_rates[p]]

\* WellInterfaceFluidSystem::calculateReservoirRates
calculateReservoirRates(ws) ==
    LET fipreg == 0
        surface_rates == [p \in PhaseIdx(phaseUsage) |-> ws.wellRates[index_of_well_][p]]
        voidage_rates == calcReservoirVoidageRates(fipreg, well.pvtRegionIdx, surface_rates)
    IN  [ws EXCEPT !.wellReservoirRates[index_of_well_] = voidage_rates]


-----------------------------------------------------------------------------
(* Outcomes of a check: ret is "true", "false" or "throw" (an exception     *)
(* leaves the call), fired the control whose limit made it return true,    *)
(* ws the WellState it leaves, group_calls the calls of the group          *)
(* evaluator.                                                              *)

Outcome(ret, fired, ws, group_calls) ==
    [ret |-> ret, fired |-> fired, ws |-> ws, group_calls |-> group_calls]

\* the three "if (pu.phase_used[..]) current_rate += ..." statements
SumUsedPhases(vec) ==
      (IF phaseUsage.phase_used[Aqua]   THEN vec[phaseUsage.phase_pos[Aqua]]   ELSE 0)
    + (IF phaseUsage.phase_used[Liquid] THEN vec[phaseUsage.phase_pos[Liquid]] ELSE 0)
    + (IF phaseUsage.phase_used[Vapour] THEN vec[phaseUsage.phase_pos[Vapour]] ELSE 0)

RECURSIVE SumVec(_, _)
SumVec(vec, n) == IF n = 0 THEN 0 ELSE vec[n - 1] + SumVec(vec, n - 1)

-----------------------------------------------------------------------------
(* checkIndividualConstraints, injector *)

\* RATE examined before BHP
InjectorOrderRateFirst == <<"RATE", "BHP", "RESV", "THP">>

InjectorOrder == <<"BHP", "RATE", "RESV", "THP">>

RecognisedInjectorTypes == {"WATER", "OIL", "GAS"}

\* the switch on controls.injector_type
InjectorCurrentRate(ws, controls) ==
    CASE controls.injector_type = "WATER" -> ws.wellRates[index_of_well_][phaseUsage.phase_pos[Aqua]]
      [] controls.injector_type = "OIL"   -> ws.wellRates[index_of_well_][phaseUsage.phase_pos[Liquid]]
      [] controls.injector_type = "GAS"   -> ws.wellRates[index_of_well_][phaseUsage.phase_pos[Vapour]]

\* a value equal to its limit also switches
InjectorLimitBrokenOrEqual(m, ws, controls) ==
    CASE m = "BHP"  -> controls.bhp_limit <= ws.bhp[index_of_well_]
      [] m = "RATE" -> controls.surface_rate <= InjectorCurrentRate(ws, controls)
      [] m = "RESV" -> controls.reservoir_rate <= SumUsedPhases(ws.wellReservoirRates[index_of_well_])
      [] m = "THP"  -> controls.thp_limit <= ws.thp[index_of_well_]

InjectorLimitBroken(m, ws, controls) ==
    CASE m = "BHP"  -> controls.bhp_limit < ws.bhp[index_of_well_]
      [] m = "RATE" -> controls.surface_rate < InjectorCurrentRate(ws, controls)
      [] m = "RESV" -> controls.reservoir_rate < SumUsedPhases(ws.wellReservoirRates[index_of_well_])
      [] m = "THP"  -> controls.thp_limit < ws.thp[index_of_well_]

\* BHP and RATE are written to WellState; RESV and THP are assigned to the
\* local copy currentControl only
InjectorStore(m, ws) ==
    IF m \in {"BHP", "RATE"}
    THEN [ws EXCEPT !.currentInjectionControl[index_of_well_] = m]
    ELSE ws

RECURSIVE InjectorScan(_, _, _)
InjectorScan(i, ws, controls) ==
    IF i > Len(InjectorOrder)
    THEN Outcome("false", "none", ws, 0)
    ELSE LET m == InjectorOrder[i]
             currentControl == ws.currentInjectionControl[index_of_well_]
         IN  IF hasControl(controls, m) /\ currentControl # m
             THEN IF m = "RATE" /\ controls.injector_type \notin RecognisedInjectorTypes
                  THEN Outcome("throw", "none", ws, 0)
                  ELSE IF InjectorLimitBroken(m, ws, controls)
                       THEN Outcome("true", m, InjectorStore(m, ws), 0)
                       ELSE InjectorScan(i + 1, ws, controls)
             ELSE InjectorScan(i + 1, ws, controls)

-----------------------------------------------------------------------------
(* checkIndividualConstraints, producer *)

\* LRAT examined before the single-phase rate controls
ProducerOrderLiquidFirst == <<"BHP", "LRAT", "ORAT", "WRAT", "GRAT", "RESV", "THP">>

ProducerOrder == <<"BHP", "ORAT", "WRAT", "GRAT", "LRAT", "RESV", "THP">>

\* the limit of RESV under rate-target mode: the target surface rates
\* converted to reservoir-voidage rates, summed
TargetResvRate(controls) ==
    LET fipreg == 0
        np == number_of_phases_
        surface_rates ==
            [p \in PhaseIdx(phaseUsage) |->
                IF phaseUsage.phase_used[Aqua] /\ p = phaseUsage.phase_pos[Aqua] THEN controls.water_rate
                ELSE IF phaseUsage.phase_used[Liquid] /\ p = phaseUsage.phase_pos[Liquid] THEN controls.oil_rate
                ELSE IF phaseUsage.phase_used[Vapour] /\ p = phaseUsage.phase_pos[Vapour] THEN controls.gas_rate
                ELSE 0]
        voidage_rates == calcReservoirVoidageRates(fipreg, well.pvtRegionIdx, surface_rates)
    IN  SumVec(voidage_rates, np)

\* the configured resv_rate is the limit in both modes
ProducerResvBrokenConfiguredLimit(ws, controls) ==
    LET current_rate == 0 - SumUsedPhases(ws.wellReservoirRates[index_of_well_])
    IN  controls.resv_rate < current_rate

ProducerResvBroken(ws, controls) ==
    LET current_rate == 0 - SumUsedPhases(ws.wellReservoirRates[index_of_well_])
    IN  \/ controls.prediction_mode /\ controls.resv_rate < current_rate
        \/ ~controls.prediction_mode /\ TargetResvRate(controls) < current_rate

\* a value equal to its limit also switches
ProducerLimitBrokenOrEqual(m, ws, controls) ==
    CASE m = "BHP"  -> controls.bhp_limit >= ws.bhp[index_of_well_]
      [] m = "ORAT" -> controls.oil_rate <= 0 - ws.wellRates[index_of_well_][phaseUsage.phase_pos[Liquid]]
      [] m = "WRAT" -> controls.water_rate <= 0 - ws.wellRates[index_of_well_][phaseUsage.phase_pos[Aqua]]
      [] m = "GRAT" -> controls.gas_rate <= 0 - ws.wellRates[index_of_well_][phaseUsage.phase_pos[Vapour]]
      [] m = "LRAT" -> controls.liquid_rate <=
                          (0 - ws.wellRates[index_of_well_][phaseUsage.phase_pos[Liquid]])
                             - ws.wellRates[index_of_well_][phaseUsage.phase_pos[Aqua]]
      [] m = "RESV" -> ProducerResvBroken(ws, controls)
      [] m = "THP"  -> controls.thp_limit >= ws.thp[index_of_well_]

ProducerLimitBroken(m, ws, controls) ==
    CASE m = "BHP"  -> controls.bhp_limit > ws.bhp[index_of_well_]
      [] m = "ORAT" -> controls.oil_rate < 0 - ws.wellRates[index_of_well_][phaseUsage.phase_pos[Liquid]]
      [] m = "WRAT" -> controls.water_rate < 0 - ws.wellRates[index_of_well_][phaseUsage.phase_pos[Aqua]]
      [] m = "GRAT" -> controls.gas_rate < 0 - ws.wellRates[index_of_well_][phaseUsage.phase_pos[Vapour]]
      [] m = "LRAT" -> controls.liquid_rate <
                          (0 - ws.wellRates[index_of_well_][phaseUsage.phase_pos[Liquid]])
                             - ws.wellRates[index_of_well_][phaseUsage.phase_pos[Aqua]]
      [] m = "RESV" -> ProducerResvBroken(ws, controls)
      [] m = "THP"  -> controls.thp_limit > ws.thp[index_of_well_]

\* a switch to a control that also resets the oil rate of the well
ProducerStoreResetsRate(m, ws) ==
    [ws EXCEPT !.currentProductionControl[index_of_well_] = m,
               !.wellRates[index_of_well_][phaseUsage.phase_pos[Liquid]] = 0]

ProducerStore(m, ws) == [ws EXCEPT !.currentProductionControl[index_of_well_] = m]

RECURSIVE ProducerScan(_, _, _)
ProducerScan(i, ws, controls) ==
    IF i > Len(ProducerOrder)
    THEN Outcome("false", "none", ws, 0)
    ELSE LET m == ProducerOrder[i]
             currentControl == ws.currentProductionControl[index_of_well_]
         IN  IF hasControl(controls, m) /\ currentControl # m /\ ProducerLimitBroken(m, ws, controls)
             THEN Outcome("true", m, ProducerStore(m, ws), 0)
             ELSE ProducerScan(i + 1, ws, controls)

checkIndividualConstraints(ws, controls) ==
    IF well.isInjector
    THEN InjectorScan(1, ws, controls)
    ELSE ProducerScan(1, ws, controls)

-----------------------------------------------------------------------------
(* checkGroupConstraints.  ga is the answer of the group evaluator        *)
(* (WellGroupHelpers::checkGroupConstraintsInj / Prod): first says the     *)
(* group limit is violated, second is the scale factor num/den.            *)

Scaled(x, s) == (x * s.num) \div s.den

\* the loop starts at the second phase
RescaleRatesSkipFirst(ws, s) ==
    [ws EXCEPT !.wellRates[index_of_well_] =
        [p \in PhaseIdx(phaseUsage) |->
            IF p = 0 THEN ws.wellRates[index_of_well_][p]
            ELSE (ws.wellRates[index_of_well_][p] * s.num) \div s.den]]

\* the loop "for p < np: wellRates(index_of_well_)[p] *= group_constraint.second"
RescaleRates(ws, s) ==
    [ws EXCEPT !.wellRates[index_of_well_] =
        [p \in PhaseIdx(phaseUsage) |-> Scaled(ws.wellRates[index_of_well_][p], s)]]

\* no default case in the switch on the injector type
checkGroupConstraintsInjNoDefault(controls, ga) ==
    [thrown |-> FALSE, first |-> ga.first, second |-> ga.second]

\* checkGroupConstraintsInj translates the injector type before it calls
\* the evaluator
checkGroupConstraintsInj(controls, ga) ==
    IF controls.injector_type \notin RecognisedInjectorTypes
    THEN [thrown |-> TRUE, first |-> FALSE, second |-> ga.second]
    ELSE [thrown |-> FALSE, first |-> ga.first, second |-> ga.second]

checkGroupConstraintsProd(controls, ga) ==
    [thrown |-> FALSE, first |-> ga.first, second |-> ga.second]

GroupModeStore(ws) ==
    IF well.isInjector
    THEN [ws EXCEPT !.currentInjectionControl[index_of_well_] = "GRUP"]
    ELSE [ws EXCEPT !.currentProductionControl[index_of_well_] = "GRUP"]

\* the evaluator is called whatever the current control is
checkGroupConstraintsAlsoInGrup(ws, controls, ga) ==
    LET group_constraint == IF well.isInjector
                            THEN checkGroupConstraintsInj(controls, ga)
                            ELSE checkGroupConstraintsProd(controls, ga)
    IN  IF group_constraint.thrown
        THEN Outcome("throw", "none", ws, 0)
        ELSE IF group_constraint.first
             THEN Outcome("true", "none",
                          RescaleRates(GroupModeStore(ws), group_constraint.second), 1)
             ELSE Outcome("false", "none", ws, 1)

\* schedule.getGroup(well.groupName(), current_step_): the group handed to
\* the evaluator
Schedule == {[name |-> "FIELD", parent |-> "none"], [name |-> "G1", parent |-> "FIELD"]}
getGroup(groupName) == CHOOSE g \in Schedule : g.name = groupName

checkGroupConstraints(ws, controls, ga) ==
    LET currentControl == IF well.isInjector
                          THEN ws.currentInjectionControl[index_of_well_]
                          ELSE ws.currentProductionControl[index_of_well_]
        group_constraint == IF well.isInjector
                            THEN checkGroupConstraintsInj(controls, ga)
                            ELSE checkGroupConstraintsProd(controls, ga)
    IN  IF currentControl # "GRUP"
        THEN IF group_constraint.thrown
             THEN Outcome("throw", "none", ws, 0)
             ELSE IF group_constraint.first
                  THEN Outcome("true", "none",
                               RescaleRates(GroupModeStore(ws), group_constraint.second), 1)
                  ELSE Outcome("false", "none", ws, 1)
        ELSE Outcome("false", "none", ws, 0)

checkConstraints(ws, controls, ga) ==
    LET ind == checkIndividualConstraints(ws, controls)
    IN  IF ind.ret = "true" \/ ind.ret = "throw"
        THEN ind
        ELSE checkGroupConstraints(ws, controls, ga)

-----------------------------------------------------------------------------
(* The constraint checker as a state machine: the flow solver renews the   *)
(* well's slot of WellState, the simulator calls checkConstraints.         *)

RateVals == {20, 30}
\* below, at and above the pressure limit 2
PressureVals == {1, 2, 3}
ResvCoeffs == {2}
ScaleFactors == {[num |-> 7, den |-> 10], [num |-> 1, den |-> 2]}

\* rates of an injector are positive, rates of a producer negative
SignedRates(isInj, pu) ==
    {[p \in PhaseIdx(pu) |-> IF isInj THEN r[p] ELSE 0 - r[p]] : r \in [PhaseIdx(pu) -> RateVals]}

\* the slots of the wells this object does not own
OtherVec(pu) == [p \in PhaseIdx(pu) |-> 50]

NoCall == [op |-> "none"]
NoAnswer == [first |-> FALSE, second |-> [num |-> 0, den |-> 1]]

CtrlWell(isInj, pu, coeff) ==
    [isInjector |-> isInj, index_of_well |-> 0, pu |-> pu,
     resv_coeff |-> coeff, pvtRegionIdx |-> 0, groupName |-> "G1"]

CtrlWellState(pu, rates, resv, bhp, thp, icm, pcm) ==
    [wellRates |-> [w \in Wells |-> IF w = 0 THEN rates ELSE OtherVec(pu)],
     wellReservoirRates |-> [w \in Wells |-> IF w = 0 THEN resv ELSE OtherVec(pu)],
     bhp |-> [w \in Wells |-> IF w = 0 THEN bhp ELSE 1],
     thp |-> [w \in Wells |-> IF w = 0 THEN thp ELSE 1],
     currentInjectionControl |-> [w \in Wells |-> IF w = 0 THEN icm ELSE "RATE"],
     currentProductionControl |-> [w \in Wells |-> IF w = 0 THEN pcm ELSE "ORAT"]]

\* controls only name phases the model has: a rate control of an inactive
\* phase is not configured

InjectorTypesOf(pu) ==
    {t \in InjectorTypes : t = "GAS" => pu.phase_used[Vapour]}

InjectionControls(pu) ==
    [cmodes : SubsetsUpTo({"BHP", "RATE", "RESV", "THP"}, MaxControls),
     injector_type : InjectorTypesOf(pu),
     bhp_limit : {2}, surface_rate : {20}, reservoir_rate : {140}, thp_limit : {2}]

ProducerModesOf(pu) ==
    {m \in {"BHP", "ORAT", "WRAT", "GRAT", "LRAT", "RESV", "THP"} :
        m = "GRAT" => pu.phase_used[Vapour]}

ProductionControls(pu) ==
    [cmodes : SubsetsUpTo(ProducerModesOf(pu), MaxControls),
     prediction_mode : BOOLEAN,
     bhp_limit : {2}, oil_rate : {20}, water_rate : {20}, gas_rate : {20},
     liquid_rate : {50}, resv_rate : {140}, thp_limit : {2}]

ControlsOf(w) == IF w.isInjector THEN InjectionControls(w.pu) ELSE ProductionControls(w.pu)

Representable(ws, s) ==
    \A p \in PhaseIdx(phaseUsage) : (ws.wellRates[index_of_well_][p] * s.num) % s.den = 0

GroupAnswers(ws) ==
    {[first |-> FALSE, second |-> [num |-> 1, den |-> 1]]}
        \cup {[first |-> TRUE, second |-> s] : s \in {t \in ScaleFactors : Representable(ws, t)}}

InitCtrl ==
    /\ \E isInj \in BOOLEAN, pu \in PhaseUsages, coeff \in ResvCoeffs :
          /\ well = CtrlWell(isInj, pu, coeff)
          /\ \E rates \in SignedRates(isInj, pu), bhp \in PressureVals, thp \in PressureVals,
                icm \in (IF isInj THEN InjectorCModes ELSE {"RATE"}),
                pcm \in (IF isInj THEN {"ORAT"} ELSE ProducerCModes) :
                well_state = CtrlWellState(pu, rates, [p \in PhaseIdx(pu) |-> coeff * rates[p]],
                                           bhp, thp, icm, pcm)
    /\ well_test_state = [wells |-> {}, completions |-> {}]
    /\ log = <<>>
    /\ call = NoCall

\* the flow solver renews rates and pressures of the well, and the
\* reservoir rates are recomputed from them
SolveStep ==
    /\ call = NoCall
    /\ \E rates \in SignedRates(well.isInjector, phaseUsage),
          bhp \in PressureVals, thp \in PressureVals :
          well_state' = calculateReservoirRates(
                            [well_state EXCEPT !.wellRates[index_of_well_] = rates,
                                               !.bhp[index_of_well_] = bhp,
                                               !.thp[index_of_well_] = thp])
    /\ UNCHANGED <<well, well_test_state, log, call>>

CheckConstraints ==
    /\ call = NoCall
    /\ \E controls \in ControlsOf(well), ga \in GroupAnswers(well_state) :
          LET out == checkConstraints(well_state, controls, ga)
          IN  /\ well_state' = out.ws
              /\ call' = [op |-> "checkConstraints", controls |-> controls,
                          ga |-> IF out.group_calls > 0 THEN ga ELSE NoAnswer,
                          pre |-> well_state, ret |-> out.ret, fired |-> out.fired,
                          group_calls |-> out.group_calls,
                          group |-> IF out.group_calls > 0
                                    THEN getGroup(well.groupName).name ELSE "none"]
    /\ UNCHANGED <<well, well_test_state, log>>

\* the caller takes the outcome of the call
Return ==
    /\ call # NoCall
    /\ call' = NoCall
    /\ log' = <<>>
    /\ UNCHANGED <<well, well_state, well_test_state>>

NextCtrl == SolveStep \/ CheckConstraints \/ Return

SpecCtrl == InitCtrl /\ [][NextCtrl]_vars

-----------------------------------------------------------------------------
(* Ratios.  A ratio is the number (n / d) * 10^e with d > 0, in lowest      *)
(* terms; e is 0 except for the sentinel 1.e100 and what is computed from  *)
(* it.  Every n and d of the model is far below 10^50, so a number with    *)
(* e = 100 and n > 0 is greater than every number with e = 0.              *)

\* a value computed once and used several times
TheOne(S) == CHOOSE x \in S : TRUE

RECURSIVE Gcd(_, _)
Gcd(a, b) == IF b = 0 THEN a ELSE Gcd(b, a % b)

Abs(x) == IF x < 0 THEN 0 - x ELSE x

Rat(n, d, e) ==
    LET g == Gcd(Abs(n), Abs(d))
        sgn == IF d < 0 THEN 0 - 1 ELSE 1
    IN  IF n = 0 THEN [n |-> 0, d |-> 1, e |-> 0]
        ELSE [n |-> sgn * (n \div g), d |-> sgn * (d \div g), e |-> e]

Zero == Rat(0, 1, 0)
One == Rat(1, 1, 0)
\* 1.e100, "big value to mark it as violated"
BigValue == Rat(1, 1, 100)

RatDiv(a, b) == Rat(a.n * b.d, a.d * b.n, a.e - b.e)

RatGreater(a, b) ==
    IF a.e = b.e THEN a.n * b.d > b.n * a.d
    ELSE IF a.e > b.e THEN a.n > 0
    ELSE b.n < 0

-----------------------------------------------------------------------------
(* WellTestState (the ledger): wells holds one entry per (well, reason),   *)
(* completions one entry per (well, completion).                           *)

hasCompletion(wts, name, complnum) ==
    \E c \in wts.completions : c.name = name /\ c.complnum = complnum

addClosedCompletion(wts, name, complnum, sim_time) ==
    IF hasCompletion(wts, name, complnum)
    THEN wts
    ELSE [wts EXCEPT !.completions =
            @ \cup {[name |-> name, complnum |-> complnum, last_test |-> sim_time]}]

closeWell(wts, name, reason, sim_time) ==
    IF \E w \in wts.wells : w.name = name /\ w.reason = reason
    THEN [wts EXCEPT !.wells =
            {IF w.name = name /\ w.reason = reason /\ ~w.closed
             THEN [w EXCEPT !.closed = TRUE, !.last_test = sim_time]
             ELSE w : w \in @}]
    ELSE [wts EXCEPT !.wells =
            @ \cup {[name |-> name, reason |-> reason, closed |-> TRUE, last_test |-> sim_time]}]

-----------------------------------------------------------------------------
(* WellEconProductionLimits: a limit is on when its value is positive *)

onMinOilRate(l) == l.min_oil_rate > 0
onMinGasRate(l) == l.min_gas_rate > 0
onMinLiquidRate(l) == l.min_liquid_rate > 0
onMinReservoirFluidRate(l) == l.min_reservoir_fluid_rate > 0
onMaxWaterCut(l) == RatGreater(l.max_water_cut, Zero)
onMaxGasOilRatio(l) == RatGreater(l.max_gas_oil_ratio, Zero)
onMaxWaterGasRatio(l) == RatGreater(l.max_water_gas_ratio, Zero)
onMaxGasLiquidRatio(l) == RatGreater(l.max_gas_liquid_ratio, Zero)
onAnyRateLimit(l) ==
    onMinOilRate(l) \/ onMinGasRate(l) \/ onMinLiquidRate(l) \/ onMinReservoirFluidRate(l)
onAnyRatioLimit(l) ==
    onMaxWaterCut(l) \/ onMaxGasOilRatio(l) \/ onMaxWaterGasRatio(l) \/ onMaxGasLiquidRatio(l)
onAnyEffectiveLimit(l) == onAnyRatioLimit(l) \/ onAnyRateLimit(l)

-----------------------------------------------------------------------------
(* checkRateEconLimits.  rates is the vector of the well's rates or        *)
(* potentials.  An evaluation is [failed, ...]: failed says an assert      *)
(* aborted it.                                                             *)

Warning(code) == [level |-> "warning", tag |-> code]
Info(msg) == [level |-> "info", tag |-> msg]

phaseIsActive(ph) == phaseUsage.phase_used[ph]

\* the stored rates are compared as they are, without std::abs
checkRateEconLimitsSigned(l, rates) ==
    LET pu == phaseUsage
        oilBroken == rates[pu.phase_pos[Oil]] < l.min_oil_rate
        gasBroken == rates[pu.phase_pos[Gas]] < l.min_gas_rate
        liquidBroken == rates[pu.phase_pos[Oil]] + rates[pu.phase_pos[Water]] < l.min_liquid_rate
        Res(failed, v, lg) == [failed |-> failed, violated |-> v, log |-> lg]
    IN  IF onMinOilRate(l) /\ oilBroken THEN Res(FALSE, TRUE, <<>>)
        ELSE IF onMinGasRate(l) /\ gasBroken THEN Res(FALSE, TRUE, <<>>)
        ELSE IF onMinLiquidRate(l) /\ liquidBroken THEN Res(FALSE, TRUE, <<>>)
        ELSE IF onMinReservoirFluidRate(l)
             THEN Res(FALSE, FALSE, <<Warning("NOT_SUPPORTING_MIN_RESERVOIR_FLUID_RATE")>>)
        ELSE Res(FALSE, FALSE, <<>>)

checkRateEconLimits(l, rates) ==
    LET pu == phaseUsage
        oilBroken == Abs(rates[pu.phase_pos[Oil]]) < l.min_oil_rate
        gasBroken == Abs(rates[pu.phase_pos[Gas]]) < l.min_gas_rate
        liquidBroken == Abs(rates[pu.phase_pos[Oil]] + rates[pu.phase_pos[Water]]) < l.min_liquid_rate
        Res(failed, v, lg) == [failed |-> failed, violated |-> v, log |-> lg]
    IN  IF onMinOilRate(l) /\ ~phaseIsActive(Oil) THEN Res(TRUE, FALSE, <<>>)
        ELSE IF onMinOilRate(l) /\ oilBroken THEN Res(FALSE, TRUE, <<>>)
        ELSE IF onMinGasRate(l) /\ ~phaseIsActive(Gas) THEN Res(TRUE, FALSE, <<>>)
        ELSE IF onMinGasRate(l) /\ gasBroken THEN Res(FALSE, TRUE, <<>>)
        ELSE IF onMinLiquidRate(l) /\ ~(phaseIsActive(Oil) /\ phaseIsActive(Water))
             THEN Res(TRUE, FALSE, <<>>)
        ELSE IF onMinLiquidRate(l) /\ liquidBroken THEN Res(FALSE, TRUE, <<>>)
        ELSE IF onMinReservoirFluidRate(l)
             THEN Res(FALSE, FALSE, <<Warning("NOT_SUPPORTING_MIN_RESERVOIR_FLUID_RATE")>>)
        ELSE Res(FALSE, FALSE, <<>>)

-----------------------------------------------------------------------------
(* The ratio evaluators: the lambdas waterCut, gor and wgr *)

RatioValue(failed, val) == [failed |-> failed, val |-> val]

waterCut(rates, pu) ==
    LET oil_rate == rates[pu.phase_pos[Oil]]
        water_rate == rates[pu.phase_pos[Water]]
        liquid_rate == oil_rate + water_rate
    IN  IF ~(oil_rate * water_rate >= 0) THEN RatioValue(TRUE, Zero)
        ELSE IF liquid_rate # 0 THEN RatioValue(FALSE, Rat(water_rate, liquid_rate, 0))
        ELSE RatioValue(FALSE, Zero)

gorWithoutSentinel(rates, pu) ==
    IF ~(rates[pu.phase_pos[Oil]] * rates[pu.phase_pos[Gas]] >= 0) THEN RatioValue(TRUE, Zero)
    ELSE IF rates[pu.phase_pos[Oil]] # 0
    THEN RatioValue(FALSE, Rat(rates[pu.phase_pos[Gas]], rates[pu.phase_pos[Oil]], 0))
    ELSE RatioValue(FALSE, Zero)

gor(rates, pu) ==
    LET oil_rate == rates[pu.phase_pos[Oil]]
        gas_rate == rates[pu.phase_pos[Gas]]
    IN  IF ~(oil_rate * gas_rate >= 0) THEN RatioValue(TRUE, Zero)
        ELSE IF oil_rate # 0 THEN RatioValue(FALSE, Rat(gas_rate, oil_rate, 0))
        ELSE IF gas_rate # 0 THEN RatioValue(FALSE, BigValue)
        ELSE RatioValue(FALSE, Zero)

\* a rate of zero is rejected as well
wgrStrictProduct(rates, pu) ==
    LET water_rate == rates[pu.phase_pos[Water]]
        gas_rate == rates[pu.phase_pos[Gas]]
    IN  IF ~(water_rate * gas_rate > 0) THEN RatioValue(TRUE, Zero)
        ELSE RatioValue(FALSE, Rat(water_rate, gas_rate, 0))

wgr(rates, pu) ==
    LET water_rate == rates[pu.phase_pos[Water]]
        gas_rate == rates[pu.phase_pos[Gas]]
    IN  IF ~(water_rate * gas_rate >= 0) THEN RatioValue(TRUE, Zero)
        ELSE IF gas_rate # 0 THEN RatioValue(FALSE, Rat(water_rate, gas_rate, 0))
        ELSE IF water_rate # 0 THEN RatioValue(FALSE, BigValue)
        ELSE RatioValue(FALSE, Zero)

\* the RatioFunc argument of checkMaxRatioLimitWell / Completions
ratioFunc(kind, rates, pu) ==
    CASE kind = "wct" -> waterCut(rates, pu)
      [] kind = "gor" -> gor(rates, pu)
      [] kind = "wgr" -> wgr(rates, pu)

-----------------------------------------------------------------------------
(* RatioLimitCheckReport and the worst-offender selector.  An evaluation   *)
(* ev is [failed, report, sums]: failed says an assert aborted it, sums    *)
(* counts the collective sum calls made so far.                            *)

INVALIDCOMPLETION == 2147483647

NewReport ==
    [ratio_limit_violated |-> FALSE,
     worst_offending_completion |-> INVALIDCOMPLETION,
     violation_extent |-> Zero]

Eval(failed, report, sums) == [failed |-> failed, report |-> report, sums |-> sums]

\* parallel_well_info_.communication().sum: the well lives on one process
CommunicationSum(completion_rates) == completion_rates

\* every positive ratio of the well counts as a violation
checkMaxRatioLimitWellAnyRatio(ws, max_ratio_limit, kind) ==
    LET np == number_of_phases_
        well_rates == [p \in 0 .. (np - 1) |-> ws.wellRates[index_of_well_][p]]
        well_ratio == ratioFunc(kind, well_rates, phaseUsage)
    IN  [failed |-> well_ratio.failed,
         violated |-> ~well_ratio.failed /\ RatGreater(well_ratio.val, Zero)]

checkMaxRatioLimitWell(ws, max_ratio_limit, kind) ==
    LET np == number_of_phases_
        well_rates == [p \in 0 .. (np - 1) |-> ws.wellRates[index_of_well_][p]]
        well_ratio == ratioFunc(kind, well_rates, phaseUsage)
    IN  [failed |-> well_ratio.failed,
         violated |-> ~well_ratio.failed /\ RatGreater(well_ratio.val, max_ratio_limit)]

SumConnectionsFirstOnly(ws, conns, i, p) ==
    IF i > 1 \/ conns = <<>> THEN 0
    ELSE ws.perfPhaseRates[(well.first_perf + conns[1]) * number_of_phases_ + p]

RECURSIVE SumConnections(_, _, _, _)
SumConnections(ws, conns, i, p) ==
    IF i > Len(conns) THEN 0
    ELSE ws.perfPhaseRates[(well.first_perf + conns[i]) * number_of_phases_ + p]
            + SumConnections(ws, conns, i + 1, p)

\* a completion whose ratio equals the maximum so far replaces it
RECURSIVE ScanCompletionsLastOfEqual(_, _, _, _)
ScanCompletionsLastOfEqual(ws, kind, i, acc) ==
    IF i > Len(well.completions) \/ acc.failed THEN acc
    ELSE TheOne({IF ratio_completion.failed
                 THEN [acc EXCEPT !.failed = TRUE, !.sums = @ + 1]
                 ELSE IF ~RatGreater(acc.max, ratio_completion.val)
                      THEN ScanCompletionsLastOfEqual(ws, kind, i + 1,
                               [worst |-> well.completions[i].first, max |-> ratio_completion.val,
                                failed |-> FALSE, sums |-> acc.sums + 1])
                      ELSE ScanCompletionsLastOfEqual(ws, kind, i + 1, [acc EXCEPT !.sums = @ + 1]) :
                    ratio_completion \in
                        {ratioFunc(kind,
                                   CommunicationSum([p \in 0 .. (number_of_phases_ - 1) |->
                                       SumConnections(ws, well.completions[i].second, 1, p)]),
                                   phaseUsage)}})

\* a completion the ledger holds closed is no candidate
RECURSIVE ScanCompletionsSkipsClosed(_, _, _, _)
ScanCompletionsSkipsClosed(ws, kind, i, acc) ==
    IF i > Len(well.completions) \/ acc.failed THEN acc
    ELSE IF hasCompletion(well_test_state, well.name, well.completions[i].first)
    THEN ScanCompletionsSkipsClosed(ws, kind, i + 1, [acc EXCEPT !.sums = @ + 1])
    ELSE TheOne({IF ratio_completion.failed
                 THEN [acc EXCEPT !.failed = TRUE, !.sums = @ + 1]
                 ELSE IF RatGreater(ratio_completion.val, acc.max)
                      THEN ScanCompletionsSkipsClosed(ws, kind, i + 1,
                               [worst |-> well.completions[i].first, max |-> ratio_completion.val,
                                failed |-> FALSE, sums |-> acc.sums + 1])
                      ELSE ScanCompletionsSkipsClosed(ws, kind, i + 1, [acc EXCEPT !.sums = @ + 1]) :
                    ratio_completion \in
                        {ratioFunc(kind,
                                   CommunicationSum([p \in 0 .. (number_of_phases_ - 1) |->
                                       SumConnections(ws, well.completions[i].second, 1, p)]),
                                   phaseUsage)}})

\* the loop over completions_, from its i-th entry on; acc is
\* [worst, max, failed, sums]
RECURSIVE ScanCompletions(_, _, _, _)
ScanCompletions(ws, kind, i, acc) ==
    IF i > Len(well.completions) \/ acc.failed THEN acc
    ELSE LET completion == well.completions[i]
             np == number_of_phases_
             completion_rates ==
                 CommunicationSum([p \in 0 .. (np - 1) |->
                                      SumConnections(ws, completion.second, 1, p)])
             ratio_completion == ratioFunc(kind, completion_rates, phaseUsage)
         IN  IF ratio_completion.failed
             THEN [acc EXCEPT !.failed = TRUE, !.sums = @ + 1]
             ELSE IF RatGreater(ratio_completion.val, acc.max)
                  THEN ScanCompletions(ws, kind, i + 1,
                           [worst |-> completion.first, max |-> ratio_completion.val,
                            failed |-> FALSE, sums |-> acc.sums + 1])
                  ELSE ScanCompletions(ws, kind, i + 1, [acc EXCEPT !.sums = @ + 1])

\* the report is overwritten by every violated kind
CompletionsVerdictLastWins(scan, max_ratio_limit, report) ==
    LET violation_extent == RatDiv(scan.max, max_ratio_limit)
    IN  IF scan.failed THEN Eval(TRUE, report, scan.sums)
        ELSE IF ~RatGreater(scan.max, max_ratio_limit) THEN Eval(TRUE, report, scan.sums)
        ELSE IF scan.worst = INVALIDCOMPLETION THEN Eval(TRUE, report, scan.sums)
        ELSE IF ~RatGreater(violation_extent, One) THEN Eval(TRUE, report, scan.sums)
        ELSE Eval(FALSE, [report EXCEPT !.worst_offending_completion = scan.worst,
                                        !.violation_extent = violation_extent],
                  scan.sums)

\* the asserts and the report update that follow the loop
CompletionsVerdict(scan, max_ratio_limit, report) ==
    LET violation_extent == RatDiv(scan.max, max_ratio_limit)
    IN  IF scan.failed THEN Eval(TRUE, report, scan.sums)
        ELSE IF ~RatGreater(scan.max, max_ratio_limit) THEN Eval(TRUE, report, scan.sums)
        ELSE IF scan.worst = INVALIDCOMPLETION THEN Eval(TRUE, report, scan.sums)
        ELSE IF ~RatGreater(violation_extent, One) THEN Eval(TRUE, report, scan.sums)
        ELSE IF RatGreater(violation_extent, report.violation_extent)
             THEN Eval(FALSE, [report EXCEPT !.worst_offending_completion = scan.worst,
                                             !.violation_extent = violation_extent],
                       scan.sums)
             ELSE Eval(FALSE, report, scan.sums)

checkMaxRatioLimitCompletions(ws, max_ratio_limit, kind, ev) ==
    TheOne({CompletionsVerdict(scan, max_ratio_limit, ev.report) :
               scan \in {ScanCompletions(ws, kind, 1,
                             [worst |-> INVALIDCOMPLETION, max |-> Zero,
                              failed |-> FALSE, sums |-> ev.sums])}})

\* checkMaxWaterCutLimit, checkMaxGORLimit, checkMaxWGRLimit: the phases
\* the ratio needs, the limit, then the well and its completions
RatioPhases(kind) ==
    CASE kind = "wct" -> {Oil, Water}
      [] kind = "gor" -> {Oil, Gas}
      [] kind = "wgr" -> {Water, Gas}

RatioLimit(kind, l) ==
    CASE kind = "wct" -> l.max_water_cut
      [] kind = "gor" -> l.max_gas_oil_ratio
      [] kind = "wgr" -> l.max_water_gas_ratio

checkMaxLimit(kind, l, ws, ev) ==
    IF \E ph \in RatioPhases(kind) : ~phaseIsActive(ph) THEN Eval(TRUE, ev.report, ev.sums)
    ELSE IF ~RatGreater(RatioLimit(kind, l), Zero) THEN Eval(TRUE, ev.report, ev.sums)
    ELSE TheOne({IF limit_violated.failed THEN Eval(TRUE, ev.report, ev.sums)
                 ELSE IF limit_violated.violated
                      THEN checkMaxRatioLimitCompletions(ws, RatioLimit(kind, l), kind,
                               Eval(FALSE, [ev.report EXCEPT !.ratio_limit_violated = TRUE], ev.sums))
                      ELSE ev :
                    limit_violated \in {checkMaxRatioLimitWell(ws, RatioLimit(kind, l), kind)}})

checkMaxWaterCutLimit(l, ws, ev) == checkMaxLimit("wct", l, ws, ev)
checkMaxGORLimit(l, ws, ev) == checkMaxLimit("gor", l, ws, ev)
checkMaxWGRLimit(l, ws, ev) == checkMaxLimit("wgr", l, ws, ev)

\* the three checks in the order of the source
RatioKinds == <<"wct", "gor", "wgr">>

onMaxRatio(kind, l) ==
    CASE kind = "wct" -> onMaxWaterCut(l)
      [] kind = "gor" -> onMaxGasOilRatio(l)
      [] kind = "wgr" -> onMaxWaterGasRatio(l)

checkMaxRatioLimit(kind, l, ws, ev) ==
    CASE kind = "wct" -> checkMaxWaterCutLimit(l, ws, ev)
      [] kind = "gor" -> checkMaxGORLimit(l, ws, ev)
      [] kind = "wgr" -> checkMaxWGRLimit(l, ws, ev)

RECURSIVE RatioChecksFrom(_, _, _, _)
RatioChecksFrom(i, l, ws, ev) ==
    IF i > Len(RatioKinds) \/ ev.failed THEN ev
    ELSE RatioChecksFrom(i + 1, l, ws,
             IF onMaxRatio(RatioKinds[i], l)
             THEN checkMaxRatioLimit(RatioKinds[i], l, ws, ev) ELSE ev)

\* the gas-liquid ratio limit is passed over without a warning
RatioChecksEndSilent(l, ev) ==
    LET consistent == ev.report.ratio_limit_violated =>
                          /\ ev.report.worst_offending_completion # INVALIDCOMPLETION
                          /\ RatGreater(ev.report.violation_extent, One)
    IN  [failed |-> ev.failed \/ ~consistent, report |-> ev.report, sums |-> ev.sums,
         log |-> <<>>]

\* the warning and the two asserts that end checkRatioEconLimits
RatioChecksEnd(l, ev) ==
    LET consistent == ev.report.ratio_limit_violated =>
                          /\ ev.report.worst_offending_completion # INVALIDCOMPLETION
                          /\ RatGreater(ev.report.violation_extent, One)
    IN  [failed |-> ev.failed \/ ~consistent, report |-> ev.report, sums |-> ev.sums,
         log |-> IF ~ev.failed /\ onMaxGasLiquidRatio(l)
                 THEN <<Warning("NOT_SUPPORTING_MAX_GLR")>> ELSE <<>>]

\* the result carries the log as well
checkRatioEconLimits(l, ws) ==
    TheOne({RatioChecksEnd(l, ev) : ev \in {RatioChecksFrom(1, l, ws, Eval(FALSE, NewReport, 0))}})

-----------------------------------------------------------------------------
(* updateWellTestStateEconomic.  outcome is "returned" or "assert" (an     *)
(* assert aborted the run before the ledger was touched).                  *)

EconWorkovers == {"NONE", "CON", "CONP", "WELL", "PLUG"}

name == well.name

EconResult(outcome, wts, lg, rate_limit_violated, ratio_evaluated, report, sums) ==
    [outcome |-> outcome, wts |-> wts, log |-> lg,
     rate_limit_violated |-> rate_limit_violated, ratio_evaluated |-> ratio_evaluated,
     report |-> report, sums |-> sums]

When(cond, entry) == IF cond THEN <<entry>> ELSE <<>>

allCompletionsClosedAnyState(wts) ==
    \A i \in 1 .. Len(well.connections) :
        hasCompletion(wts, name, well.connections[i].complnum)

\* the loop over well_ecl_.getConnections()
allCompletionsClosed(wts) ==
    \A i \in 1 .. Len(well.connections) :
        ~(/\ well.connections[i].state = "OPEN"
          /\ ~hasCompletion(wts, name, well.connections[i].complnum))

WorkoverConKeepsOnlyWorst(wts, report, simulation_time, write_message_to_opmlog) ==
    [wts |-> addClosedCompletion([wts EXCEPT !.completions = {c \in @ : c.name # name}],
                                 name, report.worst_offending_completion, simulation_time),
     log |-> <<>>]

WorkoverConNoEscalation(wts, report, simulation_time, write_message_to_opmlog) ==
    [wts |-> addClosedCompletion(wts, name, report.worst_offending_completion, simulation_time),
     log |-> <<>>]

\* the first completion of the well is closed, not the worst
WorkoverConClosesFirst(wts, report, simulation_time, write_message_to_opmlog) ==
    TheOne({IF allCompletionsClosed(wts1)
            THEN [wts |-> closeWell(wts1, name, "ECONOMIC", simulation_time), log |-> <<>>]
            ELSE [wts |-> wts1, log |-> <<>>] :
               wts1 \in {addClosedCompletion(wts, name, well.completions[1].first,
                                             simulation_time)}})

\* case EconWorkover::CON
WorkoverCon(wts, report, simulation_time, write_message_to_opmlog) ==
    LET worst_offending_completion == report.worst_offending_completion
        wts1 == addClosedCompletion(wts, name, worst_offending_completion, simulation_time)
        lg1 == When(write_message_to_opmlog,
                    IF worst_offending_completion < 0
                    THEN Info("connection closed due to economic limit")
                    ELSE Info("completion closed due to economic limit"))
    IN  IF allCompletionsClosed(wts1)
        THEN [wts |-> closeWell(wts1, name, "ECONOMIC", simulation_time),
              log |-> lg1 \o When(write_message_to_opmlog,
                                  IF well.automaticShutIn
                                  THEN Info("shut due to last completion closed")
                                  ELSE Info("stopped due to last completion closed"))]
        ELSE [wts |-> wts1, log |-> lg1]

\* case EconWorkover::WELL
WorkoverWell(wts, simulation_time, write_message_to_opmlog) ==
    [wts |-> closeWell(wts, name, "ECONOMIC", simulation_time),
     log |-> When(write_message_to_opmlog,
                  IF well.automaticShutIn
                  THEN Info("shut due to ratio economic limit")
                  ELSE Info("stopped due to ratio economic limit"))]

WorkoverDefaultClosesWell(workover, wts, report, simulation_time, write_message_to_opmlog) ==
    CASE workover = "CON"  -> WorkoverCon(wts, report, simulation_time, write_message_to_opmlog)
      [] workover = "NONE" -> [wts |-> wts, log |-> <<>>]
      [] OTHER -> WorkoverWell(wts, simulation_time, write_message_to_opmlog)

\* switch (workover)
Workover(workover, wts, report, simulation_time, write_message_to_opmlog) ==
    CASE workover = "CON"  -> WorkoverCon(wts, report, simulation_time, write_message_to_opmlog)
      [] workover = "WELL" -> WorkoverWell(wts, simulation_time, write_message_to_opmlog)
      [] workover = "NONE" -> [wts |-> wts, log |-> <<>>]
      [] OTHER -> [wts |-> wts, log |-> <<Warning("NOT_SUPPORTED_WORKOVER_TYPE")>>]

RateLimitClosureRepeated(l, wts, simulation_time, write_message_to_opmlog) ==
    [wts |-> IF \E w \in wts.wells : w.name = name /\ w.reason = "ECONOMIC"
             THEN addClosedCompletion(wts, name, well.completions[1].first, simulation_time)
             ELSE closeWell(wts, name, "ECONOMIC", simulation_time),
     log |-> <<>>]

RateLimitClosureWithWorkover(l, wts, simulation_time, write_message_to_opmlog) ==
    [wts |-> closeWell(addClosedCompletion(wts, name, well.completions[1].first, simulation_time),
                       name, "ECONOMIC", simulation_time),
     log |-> <<>>]

\* if (rate_limit_violated) { ... return; }
RateLimitClosure(l, wts, simulation_time, write_message_to_opmlog) ==
    [wts |-> closeWell(wts, name, "ECONOMIC", simulation_time),
     log |-> When(l.end_run, Warning("NOT_SUPPORTING_ENDRUN"))
                \o When(l.followon_well, Warning("NOT_SUPPORTING_FOLLOWONWELL"))
                \o When(write_message_to_opmlog,
                        IF well.automaticShutIn
                        THEN Info("shut due to rate economic limit")
                        ELSE Info("stopped due to rate economic limit"))]

\* the minimum rates, against the potentials or the rates
RateCheck(l, ws) ==
    IF onAnyRateLimit(l)
    THEN IF l.quantity_limit = "POTN"
         THEN checkRateEconLimits(l, [p \in 0 .. (number_of_phases_ - 1) |->
                                         ws.wellPotentials[index_of_well_ * number_of_phases_ + p]])
         ELSE checkRateEconLimits(l, ws.wellRates[index_of_well_])
    ELSE [failed |-> FALSE, violated |-> FALSE, log |-> <<>>]

\* from checkRatioEconLimits to the end; lg is what was logged before
RatioEvaluation(l, ws, simulation_time, write_message_to_opmlog, wts, lg) ==
    TheOne({IF ratio.failed
            THEN EconResult("assert", wts, lg, FALSE, TRUE, ratio.report, ratio.sums)
            ELSE IF ratio.report.ratio_limit_violated
            THEN TheOne({EconResult("returned", action.wts, lg \o ratio.log \o action.log,
                                    FALSE, TRUE, ratio.report, ratio.sums) :
                            action \in {Workover(l.workover, wts, ratio.report, simulation_time,
                                                 write_message_to_opmlog)}})
            ELSE EconResult("returned", wts, lg \o ratio.log, FALSE, TRUE, ratio.report, ratio.sums) :
               ratio \in {checkRatioEconLimits(l, ws)}})

\* what follows the rate check
AfterRateCheck(rate_check, l, ws, simulation_time, write_message_to_opmlog, wts) ==
    IF rate_check.failed
    THEN EconResult("assert", wts, <<>>, FALSE, FALSE, NewReport, 0)
    ELSE IF rate_check.violated
    THEN TheOne({EconResult("returned", closure.wts, closure.log, TRUE, FALSE, NewReport, 0) :
                    closure \in {RateLimitClosure(l, wts, simulation_time, write_message_to_opmlog)}})
    ELSE IF ~onAnyRatioLimit(l)
    THEN EconResult("returned", wts, rate_check.log, FALSE, FALSE, NewReport, 0)
    ELSE RatioEvaluation(l, ws, simulation_time, write_message_to_opmlog, wts, rate_check.log)

\* the body after the two early returns
EconomicEvaluation(ws, simulation_time, write_message_to_opmlog, wts) ==
    TheOne({AfterRateCheck(rate_check, well.econ_limits, ws, simulation_time,
                           write_message_to_opmlog, wts) :
               rate_check \in {RateCheck(well.econ_limits, ws)}})

updateWellTestStateEconomicOnStopped(ws, simulation_time, write_message_to_opmlog, wts) ==
    IF ~onAnyEffectiveLimit(well.econ_limits)
    THEN EconResult("returned", wts, <<>>, FALSE, FALSE, NewReport, 0)
    ELSE EconomicEvaluation(ws, simulation_time, write_message_to_opmlog, wts)

updateWellTestStateEconomic(ws, simulation_time, write_message_to_opmlog, wts) ==
    IF well.wellIsStopped
    THEN EconResult("returned", wts, <<>>, FALSE, FALSE, NewReport, 0)
    ELSE IF ~onAnyEffectiveLimit(well.econ_limits)
    THEN EconResult("returned", wts, <<>>, FALSE, FALSE, NewReport, 0)
    ELSE EconomicEvaluation(ws, simulation_time, write_message_to_opmlog, wts)

-----------------------------------------------------------------------------
(* The economic evaluator as a state machine: the flow solver renews the   *)
(* rates, the schedule may stop the well, the simulator calls              *)
(* updateWellTestStateEconomic.                                            *)

Times == 1 .. MaxTime

Connection(complnum, state) == [complnum |-> complnum, state |-> state]

\* two connections in completion 1, one in completion 2, and a shut
\* connection that is the only one of completion 3
ConnectionLayouts ==
    {<<Connection(1, "OPEN"), Connection(3, "SHUT"), Connection(1, "OPEN"), Connection(2, "OPEN")>>}

\* WellInterfaceGeneric::initCompletions: the open connections, numbered
\* in order, grouped by completion number, in the order of a std::map
OpenBefore(connections, i) ==
    Cardinality({j \in 1 .. (i - 1) : connections[j].state = "OPEN"})

RECURSIVE CompletionsFrom(_, _)
CompletionsFrom(connections, keys) ==
    IF keys = {} THEN <<>>
    ELSE LET k == CHOOSE x \in keys : \A y \in keys : x <= y
             idx == {i \in 1 .. Len(connections) :
                        connections[i].state = "OPEN" /\ connections[i].complnum = k}
             RECURSIVE Asc(_)
             Asc(S) == IF S = {} THEN <<>>
                       ELSE LET m == CHOOSE x \in S : \A y \in S : x <= y
                            IN  <<OpenBefore(connections, m)>> \o Asc(S \ {m})
         IN  <<[first |-> k, second |-> Asc(idx)]>> \o CompletionsFrom(connections, keys \ {k})

initCompletions(connections) ==
    CompletionsFrom(connections,
        {connections[i].complnum : i \in {j \in 1 .. Len(connections) : connections[j].state = "OPEN"}})

NumPerfs(connections) == OpenBefore(connections, Len(connections) + 1)

LimitNames ==
    {"min_oil_rate", "min_gas_rate", "min_liquid_rate", "min_reservoir_fluid_rate",
     "max_water_cut", "max_gas_oil_ratio", "max_water_gas_ratio", "max_gas_liquid_ratio"}
RateLimitNames == {"min_oil_rate", "min_gas_rate", "min_liquid_rate", "min_reservoir_fluid_rate"}

EconLimits(on, quantity, workover, end_run, followon) ==
    [min_oil_rate |-> IF "min_oil_rate" \in on THEN 5 ELSE 0,
     min_gas_rate |-> IF "min_gas_rate" \in on THEN 5 ELSE 0,
     min_liquid_rate |-> IF "min_liquid_rate" \in on THEN 12 ELSE 0,
     min_reservoir_fluid_rate |-> IF "min_reservoir_fluid_rate" \in on THEN 1 ELSE 0,
     max_water_cut |-> IF "max_water_cut" \in on THEN Rat(1, 2, 0) ELSE Zero,
     max_gas_oil_ratio |-> IF "max_gas_oil_ratio" \in on THEN Rat(2, 1, 0) ELSE Zero,
     max_water_gas_ratio |-> IF "max_water_gas_ratio" \in on THEN Rat(1, 1, 0) ELSE Zero,
     max_gas_liquid_ratio |-> IF "max_gas_liquid_ratio" \in on THEN Rat(1, 1, 0) ELSE Zero,
     quantity_limit |-> quantity, workover |-> workover,
     end_run |-> end_run, followon_well |-> followon]

\* the quantity only varies where a rate limit is on, the workover where a
\* ratio limit is on
EconLimitConfigs ==
    {EconLimits(on, q, w, f[1], f[2]) :
        on \in SubsetsUpTo(LimitNames, MaxLimits),
        q \in {"RATE", "POTN"}, w \in {"NONE", "CON", "WELL", "PLUG"},
        f \in {<<FALSE, FALSE>>, <<TRUE, FALSE>>, <<FALSE, TRUE>>}}

RelevantConfig(l) ==
    /\ ~onAnyRateLimit(l) => l.quantity_limit = "RATE"
    /\ ~onAnyRatioLimit(l) => l.workover = "NONE"
    /\ onAnyRateLimit(l) /\ onAnyRatioLimit(l) =>
          l.quantity_limit = "RATE" /\ ~l.end_run /\ ~l.followon_well

EconWell(connections, l) ==
    [name |-> "W1", isInjector |-> FALSE, index_of_well |-> 1, pu |-> ThreePhase,
     resv_coeff |-> 1, pvtRegionIdx |-> 0,
     first_perf |-> 1, connections |-> connections,
     completions |-> initCompletions(connections),
     econ_limits |-> l, wellIsStopped |-> FALSE, automaticShutIn |-> TRUE]

\* rates of a connection (water, oil, gas): a watered-out one, a healthy
\* one and one that does not flow
Watered == <<-9, -1, -4>>
Healthy == <<-3, -7, -7>>
NoFlow == <<0, 0, 0>>
\* perfs[c] is the rate vector of the c-th connection
PerfVals(c) ==
    CASE c = 1 -> {Watered, NoFlow}
      [] c = 2 -> {Healthy, NoFlow}
      [] OTHER -> {Watered, NoFlow}
PerfVectors(n) ==
    {perfs \in [1 .. n -> {Watered, Healthy, NoFlow}] : \A c \in 1 .. n : perfs[c] \in PerfVals(c)}
PotentialVals == {<<-1, -1, -1>>, <<-20, -20, -20>>}
\* potentials are only computed for a well whose limits ask for them
PotentialsOf(w) ==
    IF w.econ_limits.quantity_limit = "POTN" THEN PotentialVals ELSE {<<-20, -20, -20>>}

\* perfPhaseRates is one array for all wells; the well's part starts at
\* first_perf_ * np
PerfArray(w, perfs) ==
    [k \in 0 .. ((w.first_perf + Len(perfs)) * w.pu.num_phases - 1) |->
        IF k < w.first_perf * w.pu.num_phases THEN 50
        ELSE perfs[(k \div w.pu.num_phases) - w.first_perf + 1][(k % w.pu.num_phases) + 1]]

PotentialArray(w, pot) ==
    [k \in 0 .. (NumWells * w.pu.num_phases - 1) |->
        IF k \div w.pu.num_phases = w.index_of_well THEN pot[(k % w.pu.num_phases) + 1] ELSE 50]

RECURSIVE SumPerfs(_, _, _)
SumPerfs(perfs, i, p) == IF i > Len(perfs) THEN 0 ELSE perfs[i][p] + SumPerfs(perfs, i + 1, p)

\* the well's rates are the sum of the rates of its connections
EconWellState(w, perfs, pot) ==
    [wellRates |-> [x \in Wells |->
                       IF x = w.index_of_well
                       THEN [p \in PhaseIdx(w.pu) |-> SumPerfs(perfs, 1, p + 1)]
                       ELSE OtherVec(w.pu)],
     wellPotentials |-> PotentialArray(w, pot),
     perfPhaseRates |-> PerfArray(w, perfs)]

EconWellStates(w) ==
    {EconWellState(w, perfs, pot) :
        perfs \in PerfVectors(NumPerfs(w.connections)), pot \in PotentialsOf(w)}

\* the ledger holds entries of another well from the start
InitialLedger ==
    [wells |-> {[name |-> "W0", reason |-> "PHYSICAL", closed |-> TRUE, last_test |-> 0]},
     completions |-> {[name |-> "W0", complnum |-> 1, last_test |-> 0]}]

InitEcon ==
    /\ \E connections \in ConnectionLayouts,
          l \in {x \in EconLimitConfigs : RelevantConfig(x)} :
          /\ well = EconWell(connections, l)
          /\ well_state \in EconWellStates(EconWell(connections, l))
    /\ well_test_state = InitialLedger
    /\ log = <<>>
    /\ call = NoCall

SolveEcon ==
    /\ call = NoCall
    /\ well_state' \in EconWellStates(well)
    /\ UNCHANGED <<well, well_test_state, log, call>>

\* the schedule stops the well
StopWell ==
    /\ call = NoCall
    /\ ~well.wellIsStopped
    /\ well' = [well EXCEPT !.wellIsStopped = TRUE]
    /\ UNCHANGED <<well_state, well_test_state, log, call>>

\* the simulation time never runs backwards
TimeGoesOn(wts, simulation_time) ==
    /\ \A w \in wts.wells : w.last_test <= simulation_time
    /\ \A c \in wts.completions : c.last_test <= simulation_time

UpdateWellTestStateEconomic ==
    /\ call = NoCall
    /\ \E simulation_time \in {t \in Times : TimeGoesOn(well_test_state, t)},
          write_message_to_opmlog \in BOOLEAN :
          \E out \in {updateWellTestStateEconomic(well_state, simulation_time,
                                                  write_message_to_opmlog, well_test_state)} :
              /\ well_test_state' = out.wts
              /\ log' = out.log
              /\ call' = [op |-> "updateWellTestStateEconomic",
                          simulation_time |-> simulation_time,
                          write_message_to_opmlog |-> write_message_to_opmlog,
                          pre |-> well_test_state, outcome |-> out.outcome,
                          rate_limit_violated |-> out.rate_limit_violated,
                          ratio_evaluated |-> out.ratio_evaluated,
                          report |-> out.report, sums |-> out.sums]
    /\ UNCHANGED <<well, well_state>>

NextEcon == SolveEcon \/ StopWell \/ UpdateWellTestStateEconomic \/ Return

SpecEcon == InitEcon /\ [][NextEcon]_vars

-----------------------------------------------------------------------------
(* updateWellTestState: the physical check, then the economic one.  The    *)
(* physical check is delegated: it closes the well with reason PHYSICAL    *)
(* when the well is not operable.                                          *)

underPredictionMode == well.predictionMode

updateWellTestStatePhysical(operable, simulation_time, write_message_to_opmlog, wts) ==
    IF operable THEN [wts |-> wts, log |-> <<>>]
    ELSE [wts |-> closeWell(wts, name, "PHYSICAL", simulation_time),
          log |-> When(write_message_to_opmlog, Info("shut due to physical limit"))]

\* ran lists the sub-checks in the order they were run
UpdateResult(ran, mid, econ, lg) ==
    [ran |-> ran, mid |-> mid, outcome |-> econ.outcome, wts |-> econ.wts, log |-> lg \o econ.log,
     rate_limit_violated |-> econ.rate_limit_violated, ratio_evaluated |-> econ.ratio_evaluated,
     report |-> econ.report, sums |-> econ.sums]

updateWellTestStateAnyMode(ws, operable, simulation_time, write_message_to_opmlog, wts) ==
    IF well.isInjector
    THEN UpdateResult(<<>>, wts, EconResult("returned", wts, <<>>, FALSE, FALSE, NewReport, 0), <<>>)
    ELSE TheOne({TheOne({UpdateResult(<<"physical", "economic">>, physical.wts, econ, physical.log) :
                            econ \in {updateWellTestStateEconomic(ws, simulation_time,
                                          write_message_to_opmlog, physical.wts)}}) :
                    physical \in {updateWellTestStatePhysical(operable, simulation_time,
                                                              write_message_to_opmlog, wts)}})

\* the economic check is left out once the physical check closed the well
updateWellTestStateStopsAtClosure(ws, operable, simulation_time, write_message_to_opmlog, wts) ==
    IF well.isInjector \/ ~underPredictionMode
    THEN UpdateResult(<<>>, wts, EconResult("returned", wts, <<>>, FALSE, FALSE, NewReport, 0), <<>>)
    ELSE TheOne({IF physical.wts # wts
                 THEN UpdateResult(<<"physical">>, physical.wts,
                                   EconResult("returned", physical.wts, <<>>, FALSE, FALSE, NewReport, 0),
                                   physical.log)
                 ELSE TheOne({UpdateResult(<<"physical", "economic">>, physical.wts, econ, physical.log) :
                                 econ \in {updateWellTestStateEconomic(ws, simulation_time,
                                               write_message_to_opmlog, physical.wts)}}) :
                    physical \in {updateWellTestStatePhysical(operable, simulation_time,
                                                              write_message_to_opmlog, wts)}})

updateWellTestState(ws, operable, simulation_time, write_message_to_opmlog, wts) ==
    IF well.isInjector
    THEN UpdateResult(<<>>, wts, EconResult("returned", wts, <<>>, FALSE, FALSE, NewReport, 0), <<>>)
    ELSE IF ~underPredictionMode
    THEN UpdateResult(<<>>, wts, EconResult("returned", wts, <<>>, FALSE, FALSE, NewReport, 0), <<>>)
    ELSE TheOne({TheOne({UpdateResult(<<"physical", "economic">>, physical.wts, econ, physical.log) :
                            econ \in {updateWellTestStateEconomic(ws, simulation_time,
                                          write_message_to_opmlog, physical.wts)}}) :
                    physical \in {updateWellTestStatePhysical(operable, simulation_time,
                                                              write_message_to_opmlog, wts)}})

-----------------------------------------------------------------------------
(* The well-test-state updater as a state machine: wells of both roles,    *)
(* under prediction mode or not, called through updateWellTestState or     *)
(* through updateWellTestStateEconomic.                                    *)

UpdateLimitNames == {"min_oil_rate", "max_water_cut", "max_gas_oil_ratio"}

UpdateLimitConfigs ==
    {l \in EconLimitConfigs :
        /\ \A x \in LimitNames \ UpdateLimitNames :
              l[x] = EconLimits({}, "RATE", "NONE", FALSE, FALSE)[x]
        /\ l.quantity_limit = "RATE" /\ ~l.end_run /\ ~l.followon_well
        /\ l.workover \in (IF onAnyRatioLimit(l) THEN {"CON", "WELL"} ELSE {"NONE"})}

UpdateWell(connections, l, isInjector, predictionMode) ==
    [name |-> "W1", isInjector |-> isInjector, predictionMode |-> predictionMode,
     index_of_well |-> 1, pu |-> ThreePhase,
     resv_coeff |-> 1, pvtRegionIdx |-> 0,
     first_perf |-> 1, connections |-> connections,
     completions |-> initCompletions(connections),
     econ_limits |-> l, wellIsStopped |-> FALSE, automaticShutIn |-> TRUE]

InitUpdate ==
    /\ \E connections \in ConnectionLayouts, l \in UpdateLimitConfigs,
          isInjector \in BOOLEAN, predictionMode \in BOOLEAN :
          /\ well = UpdateWell(connections, l, isInjector, predictionMode)
          /\ well_state \in EconWellStates(UpdateWell(connections, l, isInjector, predictionMode))
    /\ well_test_state = InitialLedger
    /\ log = <<>>
    /\ call = NoCall

UpdateWellTestState ==
    /\ call = NoCall
    /\ \E simulation_time \in {t \in Times : TimeGoesOn(well_test_state, t)},
          write_message_to_opmlog \in BOOLEAN, operable \in BOOLEAN :
          \E out \in {updateWellTestState(well_state, operable, simulation_time,
                                          write_message_to_opmlog, well_test_state)} :
              /\ well_test_state' = out.wts
              /\ log' = out.log
              /\ call' = [op |-> "updateWellTestState",
                          simulation_time |-> simulation_time,
                          write_message_to_opmlog |-> write_message_to_opmlog,
                          operable |-> operable,
                          pre |-> well_test_state, mid |-> out.mid, ran |-> out.ran,
                          outcome |-> out.outcome,
                          rate_limit_violated |-> out.rate_limit_violated,
                          ratio_evaluated |-> out.ratio_evaluated,
                          report |-> out.report, sums |-> out.sums]
    /\ UNCHANGED <<well, well_state>>

NextUpdate ==
    SolveEcon \/ StopWell \/ UpdateWellTestState \/ UpdateWellTestStateEconomic \/ Return

SpecUpdate == InitUpdate /\ [][NextUpdate]_vars

-----------------------------------------------------------------------------
(* Two calls of updateWellTestStateEconomic in succession: the second      *)
(* call is made on the state the first one left, with the same WellState.  *)
(* Between the two the simulator may stop a well the ledger records        *)
(* closed.                                                                 *)

InitTwice ==
    /\ \E connections \in ConnectionLayouts, l \in UpdateLimitConfigs :
          /\ well = UpdateWell(connections, l, FALSE, TRUE)
          /\ well_state \in EconWellStates(UpdateWell(connections, l, FALSE, TRUE))
    /\ well_test_state = InitialLedger
    /\ log = <<>>
    /\ call = NoCall

StopClosedWell ==
    /\ call.op = "updateWellTestStateEconomic"
    /\ ~well.wellIsStopped
    /\ \E w \in well_test_state.wells : w.name = well.name /\ w.closed
    /\ well' = [well EXCEPT !.wellIsStopped = TRUE]
    /\ UNCHANGED <<well_state, well_test_state, log, call>>

\* first records the call before this one, stopped whether the well was
\* stopped when this one was made
CallAgain ==
    /\ call.op = "updateWellTestStateEconomic"
    /\ \E simulation_time \in {t \in Times : TimeGoesOn(well_test_state, t)
                                             /\ t >= call.simulation_time},
          write_message_to_opmlog \in BOOLEAN :
          \E out \in {updateWellTestStateEconomic(well_state, simulation_time,
                                                  write_message_to_opmlog, well_test_state)} :
              /\ well_test_state' = out.wts
              /\ log' = out.log
              /\ call' = [op |-> "updateWellTestStateEconomic",
                          simulation_time |-> simulation_time,
                          write_message_to_opmlog |-> write_message_to_opmlog,
                          pre |-> well_test_state, outcome |-> out.outcome,
                          rate_limit_violated |-> out.rate_limit_violated,
                          ratio_evaluated |-> out.ratio_evaluated,
                          report |-> out.report, sums |-> out.sums,
                          stopped |-> well.wellIsStopped,
                          first |-> [simulation_time |-> call.simulation_time,
                                     pre |-> call.pre,
                                     rate_limit_violated |-> call.rate_limit_violated,
                                     ratio_evaluated |-> call.ratio_evaluated,
                                     report |-> call.report]]
    /\ UNCHANGED <<well, well_state>>

NextTwice ==
    SolveEcon \/ StopWell \/ UpdateWellTestStateEconomic \/ StopClosedWell \/ CallAgain \/ Return

SpecTwice == InitTwice /\ [][NextTwice]_vars

-----------------------------------------------------------------------------
(* The ratio evaluators and the worst-offender selector on their own: a    *)
(* well of three completions, the first of two connections, all three      *)
(* ratio limits on; the functions are applied to the rates the solver      *)
(* left.                                                                   *)

RatioLayout ==
    <<Connection(1, "OPEN"), Connection(1, "OPEN"), Connection(2, "OPEN"), Connection(3, "OPEN")>>

\* water cuts 0.3, 0.9 and 0.6, no flow, gas alone
RatioPerfVals == {<<-3, -7, -7>>, <<-9, -1, -4>>, <<-6, -4, 0>>, <<0, 0, 0>>, <<0, 0, -5>>}

RatioWell ==
    EconWell(RatioLayout,
             EconLimits({"max_water_cut", "max_gas_oil_ratio", "max_water_gas_ratio"},
                        "RATE", "CON", FALSE, FALSE))

InitRatio ==
    /\ well = RatioWell
    /\ \E perfs \in [1 .. NumPerfs(RatioLayout) -> RatioPerfVals] :
          well_state = EconWellState(RatioWell, perfs, <<-20, -20, -20>>)
    /\ well_test_state = InitialLedger
    /\ log = <<>>
    /\ call = NoCall

\* a ratio lambda applied to the rates of the well
RatioFunc ==
    /\ call = NoCall
    /\ \E kind \in {"wct", "gor", "wgr"} :
          \E ratio \in {ratioFunc(kind, well_state.wellRates[index_of_well_], phaseUsage)} :
              call' = [op |-> "ratioFunc", kind |-> kind,
                       failed |-> ratio.failed, val |-> ratio.val,
                       violated |-> checkMaxRatioLimitWell(well_state,
                                        RatioLimit(kind, well.econ_limits), kind).violated]
    /\ UNCHANGED <<well, well_state, well_test_state, log>>

\* the selector, called as checkMaxWaterCutLimit and the like call it:
\* after the well-level check found the limit violated
CheckMaxRatioLimitCompletions ==
    /\ call = NoCall
    /\ \E kind \in {"wct", "gor", "wgr"} :
          /\ checkMaxRatioLimitWell(well_state, RatioLimit(kind, well.econ_limits), kind).violated
          /\ \E ev \in {checkMaxRatioLimitCompletions(well_state,
                            RatioLimit(kind, well.econ_limits), kind,
                            Eval(FALSE, [NewReport EXCEPT !.ratio_limit_violated = TRUE], 0))} :
                call' = [op |-> "checkMaxRatioLimitCompletions", kind |-> kind,
                         max_ratio_limit |-> RatioLimit(kind, well.econ_limits),
                         failed |-> ev.failed, report |-> ev.report, sums |-> ev.sums]
    /\ UNCHANGED <<well, well_state, well_test_state, log>>

NextRatio == RatioFunc \/ CheckMaxRatioLimitCompletions \/ Return

SpecRatio == InitRatio /\ [][NextRatio]_vars

-----------------------------------------------------------------------------
(* The worst-offender selector on a well whose connections are not listed  *)
(* in the order of their completion numbers, with well rates that may be   *)
(* those of an earlier iteration.                                          *)

SelectLayout == <<Connection(3, "OPEN"), Connection(1, "OPEN"), Connection(2, "OPEN")>>

SelectWell ==
    EconWell(SelectLayout,
             EconLimits({"max_water_cut", "max_gas_oil_ratio", "max_water_gas_ratio"},
                        "RATE", "CON", FALSE, FALSE))

InitSelect ==
    /\ well = SelectWell
    /\ \E perfs \in [1 .. NumPerfs(SelectLayout) -> RatioPerfVals], stale \in BOOLEAN :
          well_state =
              IF stale
              THEN [EconWellState(SelectWell, perfs, <<-20, -20, -20>>) EXCEPT
                        !.wellRates[SelectWell.index_of_well] =
                            [p \in PhaseIdx(SelectWell.pu) |-> Watered[p + 1]]]
              ELSE EconWellState(SelectWell, perfs, <<-20, -20, -20>>)
    /\ well_test_state = InitialLedger
    /\ log = <<>>
    /\ call = NoCall

NextSelect == CheckMaxRatioLimitCompletions \/ Return

SpecSelect == InitSelect /\ [][NextSelect]_vars

-----------------------------------------------------------------------------
(* checkRatioEconLimits on its own: any set of ratio limits, connection    *)
(* rates that may flow against each other, and well rates that may differ  *)
(* from the sum of the connection rates.                                   *)

CrossFlow == <<3, -7, -7>>
ReportPerfVals == RatioPerfVals \cup {CrossFlow}

RatioLimitNames == {"max_water_cut", "max_gas_oil_ratio", "max_water_gas_ratio"}

ReportLimitConfigs ==
    {EconLimits(on, "RATE", "CON", FALSE, FALSE) : on \in SubsetsUpTo(RatioLimitNames, MaxLimits)}

\* stale: the well rates are those of an earlier iteration
ReportWellState(w, perfs, stale) ==
    IF stale
    THEN [EconWellState(w, perfs, <<-20, -20, -20>>) EXCEPT
              !.wellRates[w.index_of_well] = [p \in PhaseIdx(w.pu) |-> Watered[p + 1]]]
    ELSE EconWellState(w, perfs, <<-20, -20, -20>>)

InitReport ==
    /\ \E l \in ReportLimitConfigs :
          /\ well = EconWell(RatioLayout, l)
          /\ \E perfs \in [1 .. NumPerfs(RatioLayout) -> ReportPerfVals], stale \in BOOLEAN :
                well_state = ReportWellState(EconWell(RatioLayout, l), perfs, stale)
    /\ well_test_state = InitialLedger
    /\ log = <<>>
    /\ call = NoCall

CheckRatioEconLimits ==
    /\ call = NoCall
    /\ \E out \in {checkRatioEconLimits(well.econ_limits, well_state)} :
          /\ call' = [op |-> "checkRatioEconLimits", failed |-> out.failed,
                      report |-> out.report, sums |-> out.sums]
          /\ log' = out.log
    /\ UNCHANGED <<well, well_state, well_test_state>>

NextReport == CheckRatioEconLimits \/ Return

SpecReport == InitReport /\ [][NextReport]_vars

-----------------------------------------------------------------------------
(* The ratio lambdas on rates of either sign, applied as                   *)
(* checkMaxRatioLimitWell and checkMaxRatioLimitCompletions apply them.    *)

DirectionVals == {-4, 0, 5}
DirectionVectors ==
    {<<w, o, g>> : w \in DirectionVals, o \in DirectionVals, g \in DirectionVals}

DirectionLayout == <<Connection(1, "OPEN"), Connection(2, "OPEN")>>

DirectionWell ==
    EconWell(DirectionLayout, EconLimits(RatioLimitNames, "RATE", "CON", FALSE, FALSE))

InitDirection ==
    /\ well = DirectionWell
    /\ \E perfs \in [1 .. NumPerfs(DirectionLayout) -> DirectionVectors] :
          well_state = EconWellState(DirectionWell, perfs, <<-20, -20, -20>>)
    /\ well_test_state = InitialLedger
    /\ log = <<>>
    /\ call = NoCall

\* well_ratio = ratioFunc(well_rates, phaseUsage())
WellRatio ==
    /\ call = NoCall
    /\ \E kind \in {"wct", "gor", "wgr"} :
          \E well_rates \in {[p \in 0 .. (number_of_phases_ - 1) |->
                                 well_state.wellRates[index_of_well_][p]]} :
              \E ratio \in {ratioFunc(kind, well_rates, phaseUsage)} :
                  call' = [op |-> "ratioFunc", level |-> "well", kind |-> kind,
                           rates |-> well_rates, failed |-> ratio.failed, val |-> ratio.val]
    /\ UNCHANGED <<well, well_state, well_test_state, log>>

\* ratio_completion = ratioFunc(completion_rates, phaseUsage())
RatioCompletion ==
    /\ call = NoCall
    /\ \E kind \in {"wct", "gor", "wgr"}, i \in 1 .. Len(well.completions) :
          \E completion_rates \in
                 {CommunicationSum([p \in 0 .. (number_of_phases_ - 1) |->
                                       SumConnections(well_state, well.completions[i].second, 1, p)])} :
              \E ratio \in {ratioFunc(kind, completion_rates, phaseUsage)} :
                  call' = [op |-> "ratioFunc", level |-> "completion", kind |-> kind,
                           rates |-> completion_rates, failed |-> ratio.failed, val |-> ratio.val]
    /\ UNCHANGED <<well, well_state, well_test_state, log>>

NextDirection == WellRatio \/ RatioCompletion \/ Return

SpecDirection == InitDirection /\ [][NextDirection]_vars

-----------------------------------------------------------------------------
(* The minimum-rate check on rates and potentials of either sign.          *)

SignedVals == {-9, -3, 3, 9}
SignedVectors == {<<w, o, g>> : w \in SignedVals, o \in SignedVals, g \in SignedVals}
SignedPotentials == {<<-1, -1, -1>>, <<20, 20, 20>>}

RateLayout == <<Connection(1, "OPEN")>>

RateLimitConfigs ==
    {EconLimits(on, q, "NONE", FALSE, FALSE) :
        on \in SubsetsUpTo(RateLimitNames, MaxLimits), q \in {"RATE", "POTN"}}

\* the same state under the opposite sign convention
Negated(ws) ==
    [ws EXCEPT !.wellRates[index_of_well_] =
                   [p \in PhaseIdx(phaseUsage) |-> 0 - ws.wellRates[index_of_well_][p]],
               !.wellPotentials =
                   [k \in DOMAIN ws.wellPotentials |-> 0 - ws.wellPotentials[k]]]

InitRate ==
    /\ \E l \in RateLimitConfigs :
          /\ well = EconWell(RateLayout, l)
          /\ \E rates \in SignedVectors, pot \in SignedPotentials :
                well_state = EconWellState(EconWell(RateLayout, l), <<rates>>, pot)
    /\ well_test_state = InitialLedger
    /\ log = <<>>
    /\ call = NoCall

SolveRate ==
    /\ call = NoCall
    /\ \E rates \in SignedVectors, pot \in SignedPotentials :
          well_state' = EconWellState(well, <<rates>>, pot)
    /\ UNCHANGED <<well, well_test_state, log, call>>

\* the rate check of updateWellTestStateEconomic, on the state and on the
\* state with every sign reversed
CheckRateEconLimits ==
    /\ call = NoCall
    /\ \E out \in {RateCheck(well.econ_limits, well_state)},
          mirror \in {RateCheck(well.econ_limits, Negated(well_state))} :
          /\ call' = [op |-> "checkRateEconLimits", failed |-> out.failed,
                      violated |-> out.violated, mirror |-> mirror.violated]
          /\ log' = out.log
    /\ UNCHANGED <<well, well_state, well_test_state>>

NextRate == SolveRate \/ CheckRateEconLimits \/ Return

SpecRate == InitRate /\ [][NextRate]_vars

-----------------------------------------------------------------------------
(* A well whose connections lie on several ranks.  Every rank runs         *)
(* updateWellTestStateEconomic on the same well, limits and well rates and  *)
(* reads the rates of its own connections only; the collective sum returns  *)
(* on all ranks once every rank has entered it.  call.rank[r] is the        *)
(* position of rank r: pc is "start", "sum" (inside the collective),        *)
(* "loop" (back from it), "done" or "assert".                               *)

Ranks == 1 .. NumRanks

RankLayout == <<Connection(1, "OPEN"), Connection(1, "OPEN"), Connection(2, "OPEN")>>

\* owner[c] is the rank that holds the c-th connection: all on the first
\* rank, or the second connection on the last rank
OwnerMaps ==
    {[c \in 1 .. Len(RankLayout) |-> 1],
     [c \in 1 .. Len(RankLayout) |-> IF c = 2 THEN NumRanks ELSE 1]}

RankLimitConfigs ==
    {EconLimits(on, "RATE", "CON", FALSE, FALSE) :
        on \in SubsetsUpTo({"min_oil_rate", "max_water_cut", "max_gas_oil_ratio"}, MaxLimits)}

RankWell(l, owner) ==
    [name |-> "W1", isInjector |-> FALSE, index_of_well |-> 1, pu |-> ThreePhase,
     resv_coeff |-> 1, pvtRegionIdx |-> 0,
     first_perf |-> 1, connections |-> RankLayout,
     completions |-> initCompletions(RankLayout),
     econ_limits |-> l, wellIsStopped |-> FALSE, automaticShutIn |-> TRUE,
     owner |-> owner]

\* the connections of a completion that lie on rank r
RECURSIVE LocalConns(_, _, _)
LocalConns(r, conns, i) ==
    IF i > Len(conns) THEN <<>>
    ELSE (IF well.owner[conns[i] + 1] = r THEN <<conns[i]>> ELSE <<>>) \o LocalConns(r, conns, i + 1)

\* completion_rates before the sum: the rates of the rank's own connections
LocalCompletionRates(r, i) ==
    [p \in 0 .. (number_of_phases_ - 1) |->
        SumConnections(well_state, LocalConns(r, well.completions[i].second, 1), 1, p)]

RECURSIVE SumOverRanks(_, _, _)
SumOverRanks(rank, r, p) ==
    IF r > NumRanks THEN 0 ELSE rank[r].local[p] + SumOverRanks(rank, r + 1, p)

\* parallel_well_info_.communication().sum over the ranks of the well
CollectiveSum(rank) == [p \in 0 .. (number_of_phases_ - 1) |-> SumOverRanks(rank, 1, p)]

NoRates == [p \in 0 .. (number_of_phases_ - 1) |-> 0]

RankStart ==
    [pc |-> "start", k |-> 0, i |-> 0, sums |-> 0, max |-> Zero, worst |-> INVALIDCOMPLETION,
     local |-> NoRates, total |-> NoRates]

RankAt(rk, pc) == [rk EXCEPT !.pc = pc, !.local = NoRates, !.total = NoRates]

RECURSIVE RunKinds(_, _, _)

\* the asserts after the loop over completions_, then the next kind
AfterLoop(r, rk) ==
    IF RatGreater(rk.max, RatioLimit(RatioKinds[rk.k], well.econ_limits))
          /\ rk.worst # INVALIDCOMPLETION
    THEN RunKinds(r, rk.k + 1, rk)
    ELSE RankAt(rk, "assert")

\* a completion without a connection on the rank is passed over
RECURSIVE CompletionLoopSkipsEmpty(_, _, _)
CompletionLoopSkipsEmpty(r, rk, i) ==
    IF i > Len(well.completions) THEN AfterLoop(r, rk)
    ELSE IF LocalConns(r, well.completions[i].second, 1) = <<>>
    THEN CompletionLoopSkipsEmpty(r, rk, i + 1)
    ELSE [rk EXCEPT !.pc = "sum", !.i = i, !.local = LocalCompletionRates(r, i)]

\* the loop over completions_ from its i-th entry, up to the sum
CompletionLoop(r, rk, i) ==
    IF i > Len(well.completions) THEN AfterLoop(r, rk)
    ELSE [rk EXCEPT !.pc = "sum", !.i = i, !.local = LocalCompletionRates(r, i)]

\* checkRatioEconLimits from its k-th kind on
RunKinds(r, k, rk) ==
    IF k > Len(RatioKinds) THEN RankAt(rk, "done")
    ELSE IF ~onMaxRatio(RatioKinds[k], well.econ_limits) THEN RunKinds(r, k + 1, rk)
    ELSE TheOne({IF limit_violated.failed THEN RankAt(rk, "assert")
                 ELSE IF limit_violated.violated
                      THEN CompletionLoop(r, [rk EXCEPT !.k = k, !.max = Zero,
                                                        !.worst = INVALIDCOMPLETION], 1)
                      ELSE RunKinds(r, k + 1, rk) :
                    limit_violated \in {checkMaxRatioLimitWell(well_state,
                                            RatioLimit(RatioKinds[k], well.econ_limits),
                                            RatioKinds[k])}})

\* updateWellTestStateEconomic up to its first sum
RunStart(r, rk) ==
    IF well.wellIsStopped THEN RankAt(rk, "done")
    ELSE IF ~onAnyEffectiveLimit(well.econ_limits) THEN RankAt(rk, "done")
    ELSE TheOne({IF rate_check.failed THEN RankAt(rk, "assert")
                 ELSE IF rate_check.violated THEN RankAt(rk, "done")
                 ELSE IF ~onAnyRatioLimit(well.econ_limits) THEN RankAt(rk, "done")
                 ELSE RunKinds(r, 1, rk) :
                    rate_check \in {RateCheck(well.econ_limits, well_state)}})

\* from the return of the sum to the next sum
RunLoop(r, rk) ==
    TheOne({IF ratio_completion.failed THEN RankAt(rk, "assert")
            ELSE IF RatGreater(ratio_completion.val, rk.max)
                 THEN CompletionLoop(r, [rk EXCEPT !.worst = well.completions[rk.i].first,
                                                   !.max = ratio_completion.val], rk.i + 1)
                 ELSE CompletionLoop(r, rk, rk.i + 1) :
               ratio_completion \in {ratioFunc(RatioKinds[rk.k], rk.total, phaseUsage)}})

InitRanks ==
    /\ \E l \in RankLimitConfigs, owner \in OwnerMaps :
          /\ well = RankWell(l, owner)
          /\ \E perfs \in [1 .. NumPerfs(RankLayout) -> {Watered, Healthy}] :
                well_state = EconWellState(RankWell(l, owner), perfs, <<-20, -20, -20>>)
    /\ well_test_state = InitialLedger
    /\ log = <<>>
    /\ call = NoCall

\* the simulator calls updateWellTestStateEconomic on every rank
CallOnRanks ==
    /\ call = NoCall
    /\ call' = [op |-> "ranks", rank |-> [r \in Ranks |-> RankStart]]
    /\ UNCHANGED <<well, well_state, well_test_state, log>>

\* rank r runs on to its next sum or to the end of the call
RankStep ==
    /\ call.op = "ranks"
    /\ \E r \in Ranks :
          /\ call.rank[r].pc \in {"start", "loop"}
          /\ \E next \in {IF call.rank[r].pc = "start"
                          THEN RunStart(r, call.rank[r]) ELSE RunLoop(r, call.rank[r])} :
                call' = [call EXCEPT !.rank[r] = next]
    /\ UNCHANGED <<well, well_state, well_test_state, log>>

\* the sum returns once every rank of the well is inside it
SumReturns ==
    /\ call.op = "ranks"
    /\ \A r \in Ranks : call.rank[r].pc = "sum"
    /\ \E total \in {CollectiveSum(call.rank)} :
          call' = [call EXCEPT !.rank = [r \in Ranks |->
                       [call.rank[r] EXCEPT !.pc = "loop", !.total = total, !.sums = @ + 1,
                                            !.local = NoRates]]]
    /\ UNCHANGED <<well, well_state, well_test_state, log>>

\* every rank has left the call
RanksReturn ==
    /\ call.op = "ranks"
    /\ \A r \in Ranks : call.rank[r].pc \in {"done", "assert"}
    /\ call' = NoCall
    /\ UNCHANGED <<well, well_state, well_test_state, log>>

NextRanks == CallOnRanks \/ RankStep \/ SumReturns \/ RanksReturn

SpecRanks == InitRanks /\ [][NextRanks]_vars

-----------------------------------------------------------------------------
(* Properties of the constraint checker.  They are stated on the state     *)
(* right after a call: call.pre is WellState before it, well_state after.  *)

IsCheck == call.op = "checkConstraints"

ModeOf(ws) ==
    IF well.isInjector
    THEN ws.currentInjectionControl[index_of_well_]
    ELSE ws.currentProductionControl[index_of_well_]

\* the controls the call examines: configured and not active before it
Candidates == {m \in call.controls.cmodes : m # ModeOf(call.pre)}

ActiveSum(vec) ==
    LET used == {ph \in Phases : phaseUsage.phase_used[ph]}
        pos == phaseUsage.phase_pos
    IN    (IF Aqua \in used THEN vec[pos[Aqua]] ELSE 0)
        + (IF Liquid \in used THEN vec[pos[Liquid]] ELSE 0)
        + (IF Vapour \in used THEN vec[pos[Vapour]] ELSE 0)

PreRate(ph) == call.pre.wellRates[index_of_well_][phaseUsage.phase_pos[ph]]

InjectedPhase ==
    CASE call.controls.injector_type = "WATER" -> Aqua
      [] call.controls.injector_type = "OIL" -> Liquid
      [] call.controls.injector_type = "GAS" -> Vapour

\* limit exceeded, by the direction rule of each injector control
InjViolated(m) ==
    CASE m = "BHP"  -> call.pre.bhp[index_of_well_] > call.controls.bhp_limit
      [] m = "RATE" -> /\ call.controls.injector_type \in {"WATER", "OIL", "GAS"}
                      /\ PreRate(InjectedPhase) > call.controls.surface_rate
      [] m = "RESV" -> ActiveSum(call.pre.wellReservoirRates[index_of_well_])
                          > call.controls.reservoir_rate
      [] m = "THP"  -> call.pre.thp[index_of_well_] > call.controls.thp_limit

InjRank(m) ==
    CASE m = "BHP" -> 1 [] m = "RATE" -> 2 [] m = "RESV" -> 3 [] m = "THP" -> 4

ProdRank(m) ==
    CASE m = "BHP" -> 1 [] m = "ORAT" -> 2 [] m = "WRAT" -> 3 [] m = "GRAT" -> 4
      [] m = "LRAT" -> 5 [] m = "RESV" -> 6 [] m = "THP" -> 7

ProdResvLimit ==
    IF call.controls.prediction_mode
    THEN call.controls.resv_rate
    ELSE LET targets == [p \in PhaseIdx(phaseUsage) |->
                            IF p = phaseUsage.phase_pos[Aqua] THEN call.controls.water_rate
                            ELSE IF p = phaseUsage.phase_pos[Liquid] THEN call.controls.oil_rate
                            ELSE call.controls.gas_rate]
         IN  SumVec(calcReservoirVoidageRates(0, well.pvtRegionIdx, targets), number_of_phases_)

ProdViolated(m) ==
    CASE m = "BHP"  -> call.pre.bhp[index_of_well_] < call.controls.bhp_limit
      [] m = "ORAT" -> 0 - PreRate(Liquid) > call.controls.oil_rate
      [] m = "WRAT" -> 0 - PreRate(Aqua) > call.controls.water_rate
      [] m = "GRAT" -> 0 - PreRate(Vapour) > call.controls.gas_rate
      [] m = "LRAT" -> 0 - (PreRate(Liquid) + PreRate(Aqua)) > call.controls.liquid_rate
      [] m = "RESV" -> 0 - ActiveSum(call.pre.wellReservoirRates[index_of_well_]) > ProdResvLimit
      [] m = "THP"  -> call.pre.thp[index_of_well_] < call.controls.thp_limit

\* C1 (as claimed): checkConstraints returns true if and only if the call
\* changed the well's current control mode in WellState.
C1_TrueIffModeChanged ==
    (IsCheck /\ call.ret \in {"true", "false"})
        => ((call.ret = "true") <=> (ModeOf(well_state) # ModeOf(call.pre)))

\* C2: for an injector the limit that fires is a configured, not active,
\* violated control, no configured, not active control before it in the
\* order BHP, RATE, RESV, THP is violated, and with BHP and RATE both
\* violated and neither active BHP fires.
C2_InjectorPriority ==
    (IsCheck /\ well.isInjector) =>
        /\ call.fired # "none" =>
              /\ call.ret = "true"
              /\ call.fired \in Candidates
              /\ InjViolated(call.fired)
              /\ \A m \in Candidates : InjRank(m) < InjRank(call.fired) => ~InjViolated(m)
        /\ ({"BHP", "RATE"} \subseteq Candidates /\ InjViolated("BHP")) => call.fired = "BHP"
        /\ (call.fired = "none" /\ call.ret # "throw") => \A m \in Candidates : ~InjViolated(m)

C2_Witness ==
    /\ IsCheck /\ well.isInjector
    /\ {"BHP", "RATE"} \subseteq Candidates
    /\ InjViolated("BHP") /\ InjViolated("RATE")
    /\ call.fired = "BHP"

\* C3: for a producer the call returns true at the first violated control
\* among the configured, not active ones in the order BHP, ORAT, WRAT,
\* GRAT, LRAT, RESV, THP, and the production control mode in WellState is
\* then exactly that control.
C3_ProducerPriority ==
    (IsCheck /\ ~well.isInjector) =>
        LET broken == {m \in Candidates : ProdViolated(m)}
        IN  /\ broken # {} =>
                  /\ call.ret = "true"
                  /\ call.fired \in broken
                  /\ \A m \in broken : ProdRank(call.fired) <= ProdRank(m)
                  /\ well_state.currentProductionControl[index_of_well_] = call.fired
            /\ broken = {} => call.fired = "none"

C3_Witness ==
    /\ IsCheck /\ ~well.isInjector
    /\ {"ORAT", "LRAT"} \subseteq Candidates
    /\ ProdViolated("ORAT") /\ ProdViolated("LRAT")
    /\ call.fired = "ORAT"
    /\ well_state.currentProductionControl[index_of_well_] = "ORAT"

\* C4: when no individual constraint fires, the well is not in GRUP mode
\* and the group evaluator reports a violation with factor s, the control
\* mode of the well's role becomes GRUP, every surface phase rate of the
\* well is s times its value before, and the call returns true.
C4_GroupRescale ==
    (/\ IsCheck /\ call.fired = "none" /\ call.ret # "throw"
     /\ ModeOf(call.pre) # "GRUP"
     /\ call.group_calls = 1 /\ call.ga.first)
        => /\ call.ret = "true"
           /\ ModeOf(well_state) = "GRUP"
           /\ \A p \in PhaseIdx(phaseUsage) :
                 well_state.wellRates[index_of_well_][p] * call.ga.second.den
                    = call.pre.wellRates[index_of_well_][p] * call.ga.second.num

C4_Witness ==
    /\ IsCheck /\ call.fired = "none" /\ call.group_calls = 1 /\ call.ga.first
    /\ call.ga.second = [num |-> 7, den |-> 10]
    /\ call.controls.cmodes # {}
    /\ call.pre.wellRates[index_of_well_][0] = 30
    /\ well_state.wellRates[index_of_well_][0] = 21
    /\ ModeOf(well_state) = "GRUP"

OtherWellsUnchanged ==
    \A w \in Wells \ {index_of_well_} :
        /\ well_state.wellRates[w] = call.pre.wellRates[w]
        /\ well_state.wellReservoirRates[w] = call.pre.wellReservoirRates[w]
        /\ well_state.bhp[w] = call.pre.bhp[w]
        /\ well_state.thp[w] = call.pre.thp[w]
        /\ well_state.currentInjectionControl[w] = call.pre.currentInjectionControl[w]
        /\ well_state.currentProductionControl[w] = call.pre.currentProductionControl[w]

GroupViolationPath == call.group_calls = 1 /\ call.ga.first

\* C5: the well's surface rates are rewritten only on the group-violation
\* path; its reservoir rates, BHP and THP never; the slots of the other
\* wells never.
C5_RatesFrame ==
    IsCheck =>
        /\ OtherWellsUnchanged
        /\ well_state.wellReservoirRates[index_of_well_] = call.pre.wellReservoirRates[index_of_well_]
        /\ well_state.bhp[index_of_well_] = call.pre.bhp[index_of_well_]
        /\ well_state.thp[index_of_well_] = call.pre.thp[index_of_well_]
        /\ ~GroupViolationPath
              => well_state.wellRates[index_of_well_] = call.pre.wellRates[index_of_well_]

C5_Witness ==
    /\ IsCheck /\ ~well.isInjector
    /\ call.fired = "ORAT"
    /\ well_state.currentProductionControl[index_of_well_] # call.pre.currentProductionControl[index_of_well_]
    /\ well_state.wellRates = call.pre.wellRates

UnrecognisedType == well.isInjector /\ call.controls.injector_type \notin {"WATER", "OIL", "GAS"}

\* C6 (as claimed): on an injector whose fluid type is none of WATER, OIL,
\* GAS checkConstraints throws, whatever the controls, the mode and the
\* observed values, and leaves WellState unchanged.
C6_AlwaysThrows ==
    (IsCheck /\ UnrecognisedType) => (call.ret = "throw" /\ well_state = call.pre)

\* C6 (amended): on such an injector checkConstraints throws exactly when
\* the type is resolved, that is when no BHP limit fires and either RATE
\* is configured and not active, or neither RESV nor THP fires and the
\* mode is not GRUP; when it throws WellState is unchanged.
C6_ThrowsWhenTypeResolved ==
    (IsCheck /\ UnrecognisedType) =>
        LET fires(m) == m \in Candidates /\ InjViolated(m)
        IN  /\ (call.ret = "throw") <=>
                  /\ ~fires("BHP")
                  /\ \/ "RATE" \in Candidates
                     \/ ~fires("RESV") /\ ~fires("THP") /\ ModeOf(call.pre) # "GRUP"
            /\ call.ret = "throw" => well_state = call.pre

C6_Witness ==
    /\ IsCheck /\ UnrecognisedType
    /\ call.ret = "throw"
    /\ "RATE" \notin call.controls.cmodes
    /\ "BHP" \in Candidates

-----------------------------------------------------------------------------
(* Properties of the economic evaluator.  While call # NoCall the state is *)
(* the one the call left: call.pre is the ledger before the call, well and *)
(* well_state are as the call saw them.                                    *)

IsEcon == call.op = "updateWellTestStateEconomic"

Limits == well.econ_limits

\* a limit is effective when its value is positive
EffectiveLimits ==
    {x \in RateLimitNames : Limits[x] > 0} \cup {x \in LimitNames \ RateLimitNames : Limits[x].n > 0}

\* the quantity a minimum rate is compared with
Quantity(ph) ==
    IF Limits.quantity_limit = "POTN"
    THEN well_state.wellPotentials[well.index_of_well * well.pu.num_phases + well.pu.phase_pos[ph]]
    ELSE well_state.wellRates[well.index_of_well][well.pu.phase_pos[ph]]

MinRateViolated ==
    \/ Limits.min_oil_rate > 0 /\ Limits.min_oil_rate > Abs(Quantity(Oil))
    \/ Limits.min_gas_rate > 0 /\ Limits.min_gas_rate > Abs(Quantity(Gas))
    \/ Limits.min_liquid_rate > 0 /\ Limits.min_liquid_rate > Abs(Quantity(Oil) + Quantity(Water))

WellRate(ph) == Abs(well_state.wellRates[well.index_of_well][well.pu.phase_pos[ph]])

\* num / den > limit, for non-negative num and den and a limit n/d
Exceeds(num, den, limit) ==
    IF den = 0 THEN num > 0 ELSE num * limit.d > limit.n * den

WaterCutViolated ==
    /\ Limits.max_water_cut.n > 0
    /\ Exceeds(WellRate(Water), WellRate(Oil) + WellRate(Water), Limits.max_water_cut)
GasOilRatioViolated ==
    /\ Limits.max_gas_oil_ratio.n > 0
    /\ Exceeds(WellRate(Gas), WellRate(Oil), Limits.max_gas_oil_ratio)
WaterGasRatioViolated ==
    /\ Limits.max_water_gas_ratio.n > 0
    /\ Exceeds(WellRate(Water), WellRate(Gas), Limits.max_water_gas_ratio)

\* the call reached the workover: the well runs, no minimum rate is
\* violated and a ratio limit is
RatioLimitViolated ==
    /\ IsEcon
    /\ ~well.wellIsStopped
    /\ ~MinRateViolated
    /\ WaterCutViolated \/ GasOilRatioViolated \/ WaterGasRatioViolated

ClosedEconomic(wts) ==
    \E w \in wts.wells : w.name = well.name /\ w.reason = "ECONOMIC" /\ w.closed

ClosedCompletions(wts) == {<<c.name, c.complnum>> : c \in wts.completions}

\* C7: updateWellTestStateEconomic leaves the ledger unchanged and logs
\* nothing when the well is stopped and when no limit is effective; the
\* ledger changes only for a running well with an effective limit.
C7_NoOpWhenStoppedOrNoLimit ==
    IsEcon =>
        /\ well.wellIsStopped \/ EffectiveLimits = {} =>
              well_test_state = call.pre /\ log = <<>> /\ call.outcome = "returned"
        /\ well_test_state # call.pre => ~well.wellIsStopped /\ EffectiveLimits # {}

\* a stopped well whose oil rate is below its effective minimum
C7_Witness ==
    /\ IsEcon
    /\ well.wellIsStopped
    /\ Limits.quantity_limit = "RATE"
    /\ Limits.min_oil_rate > 0
    /\ MinRateViolated
    /\ call.write_message_to_opmlog

\* C8: a violated minimum rate closes the well with reason ECONOMIC and
\* ends the call before any ratio limit is evaluated: no completion is
\* closed and the ratio report stays as constructed, also when a ratio
\* limit is violated and the workover is CON.
C8_RateLimitShortCircuits ==
    IsEcon /\ ~well.wellIsStopped /\ MinRateViolated =>
        /\ call.outcome = "returned"
        /\ ClosedEconomic(well_test_state)
        /\ well_test_state.completions = call.pre.completions
        /\ ~call.ratio_evaluated
        /\ call.report = NewReport
        /\ call.sums = 0

\* minimum oil rate and water cut both violated, workover CON
C8_Witness ==
    /\ IsEcon
    /\ ~well.wellIsStopped
    /\ Limits.min_oil_rate > 0
    /\ MinRateViolated
    /\ WaterCutViolated
    /\ Limits.workover = "CON"
    /\ ~ClosedEconomic(call.pre)

AllOpenConnectionsClosed(wts) ==
    \A i \in 1 .. Len(well.connections) :
        well.connections[i].state = "OPEN" =>
            <<well.name, well.connections[i].complnum>> \in ClosedCompletions(wts)

\* C9: under CON a violated ratio limit records the worst-offending
\* completion of the report, and no other, as closed; the well is closed
\* (ECONOMIC) in the same call iff afterwards every OPEN connection belongs
\* to a completion the ledger records closed.
C9_ConClosesWorstCompletion ==
    RatioLimitViolated /\ Limits.workover = "CON" =>
        /\ call.outcome = "returned"
        /\ call.report.ratio_limit_violated
        /\ ClosedCompletions(well_test_state) =
              ClosedCompletions(call.pre) \cup {<<well.name, call.report.worst_offending_completion>>}
        /\ call.pre.completions \subseteq well_test_state.completions
        /\ Cardinality(well_test_state.completions \ call.pre.completions) <= 1
        /\ IF AllOpenConnectionsClosed(well_test_state)
           THEN ClosedEconomic(well_test_state)
           ELSE well_test_state.wells = call.pre.wells

\* the call that closes the last completion closes the well
C9_Witness ==
    /\ RatioLimitViolated
    /\ Limits.workover = "CON"
    /\ ClosedCompletions(call.pre) # ClosedCompletions(InitialLedger)
    /\ ~AllOpenConnectionsClosed(call.pre)
    /\ AllOpenConnectionsClosed(well_test_state)
    /\ ~ClosedEconomic(call.pre)
    /\ ClosedEconomic(well_test_state)

\* C10: on a violated ratio limit, WELL closes the well (ECONOMIC) and no
\* completion, NONE leaves the ledger unchanged, any other workover but
\* CON logs the warning NOT_SUPPORTED_WORKOVER_TYPE and leaves the ledger
\* unchanged.
C10_WellNoneAndUnsupported ==
    RatioLimitViolated /\ Limits.workover # "CON" =>
        /\ call.outcome = "returned"
        /\ Limits.workover = "WELL" =>
              /\ ClosedEconomic(well_test_state)
              /\ well_test_state.completions = call.pre.completions
        /\ Limits.workover = "NONE" => well_test_state = call.pre
        /\ Limits.workover \notin {"WELL", "NONE"} =>
              /\ \E i \in 1 .. Len(log) : log[i] = Warning("NOT_SUPPORTED_WORKOVER_TYPE")
              /\ well_test_state = call.pre

\* a workover the evaluator does not support
C10_Witness ==
    /\ RatioLimitViolated
    /\ Limits.workover = "PLUG"
    /\ Len(log) > 0

-----------------------------------------------------------------------------
(* Properties of the ledger under any sequence of calls of                 *)
(* updateWellTestState and updateWellTestStateEconomic.                    *)

IsUpdate == call.op = "updateWellTestState"

IsLedgerCall == IsEcon \/ IsUpdate

\* the completions of the well: those of its open connections
AllCompletionsClosed(wts) ==
    \A i \in 1 .. Len(well.completions) :
        <<well.name, well.completions[i].first>> \in ClosedCompletions(wts)

OwnCompletions(wts) == {c \in wts.completions : c.name = well.name}

\* C11: in every reachable state, if all completions of the well are
\* recorded closed then the well is recorded closed with reason ECONOMIC;
\* so the call that records the second completion of a 2-completion well
\* leaves the well entry closed.
C11_AllClosedImpliesWellClosed ==
    AllCompletionsClosed(well_test_state) => ClosedEconomic(well_test_state)

\* the two completions were closed one per call, the second by this call
C11_Witness ==
    /\ IsUpdate
    /\ Len(well.completions) = 2
    /\ Cardinality(OwnCompletions(call.pre)) = 1
    /\ ~ClosedEconomic(call.pre)
    /\ Cardinality(OwnCompletions(well_test_state)) = 2
    /\ AllCompletionsClosed(well_test_state)
    /\ ClosedEconomic(well_test_state)

\* every entry of the ledger a is still in the ledger b, and closed there
\* if it was closed
Kept(a, b) ==
    /\ \A w \in a.wells :
          \E x \in b.wells : x.name = w.name /\ x.reason = w.reason /\ (w.closed => x.closed)
    /\ \A c \in a.completions :
          \E x \in b.completions : x.name = c.name /\ x.complnum = c.complnum

\* C12: no step removes a well entry or a completion entry from the ledger
\* or turns a closed entry back to open; so what is closed stays closed
\* over every later sequence of calls.
C12_LedgerOnlyGrows == [][Kept(well_test_state, well_test_state')]_vars

\* a call that changed a ledger already holding a closed entry and a
\* closed completion of the well
C12_Witness ==
    /\ IsLedgerCall
    /\ OwnCompletions(call.pre) # {}
    /\ \E w \in call.pre.wells : w.name = well.name /\ w.closed
    /\ well_test_state # call.pre

-----------------------------------------------------------------------------
(* Properties of two calls in succession.                                  *)

IsSecond == IsEcon /\ "first" \in DOMAIN call

\* the call before this one closed the well in the ledger
FirstClosedWell ==
    /\ IsSecond
    /\ ~ClosedEconomic(call.first.pre)
    /\ ClosedEconomic(call.pre)

EarlyReturn == ~call.rate_limit_violated /\ ~call.ratio_evaluated

\* C13 (as claimed): a second call in succession, with WellState
\* unchanged, on a well the first call closed returns early, leaves the
\* ledger as the first call left it and logs nothing.
C13_SecondCallNoOp ==
    FirstClosedWell => (EarlyReturn /\ well_test_state = call.pre /\ log = <<>>)

\* C13 (amended): such a second call leaves every field of the ledger as
\* the first call left it.  It returns early and logs nothing when the
\* well has been stopped in between; on a well still running it evaluates
\* the limits again, with the verdict of the first call, and logs the
\* closure again when messages are asked for.
C13_SecondCallKeepsLedger ==
    FirstClosedWell =>
        /\ call.outcome = "returned"
        /\ well_test_state = call.pre
        /\ call.stopped => EarlyReturn /\ log = <<>>
        /\ ~call.stopped =>
              /\ ~EarlyReturn
              /\ call.rate_limit_violated = call.first.rate_limit_violated
              /\ call.ratio_evaluated = call.first.ratio_evaluated
              /\ call.report = call.first.report
              /\ call.write_message_to_opmlog => log # <<>>

\* a later second call on a running well: the ledger keeps the time
\* stamps of the first call, the closure is logged again
C13_Witness ==
    /\ FirstClosedWell
    /\ ~call.stopped
    /\ call.simulation_time > call.first.simulation_time
    /\ call.write_message_to_opmlog
    /\ log # <<>>
    /\ well_test_state = call.pre
    /\ \E w \in well_test_state.wells :
          w.name = well.name /\ w.closed /\ w.last_test = call.first.simulation_time

-----------------------------------------------------------------------------
(* Properties of the ratio evaluators and of the worst-offender selector.  *)

IsRatio(kind) == call.op = "ratioFunc" /\ call.kind = kind

\* the value is num / den
IsQuotient(val, num, den) == val.e = 0 /\ val.d # 0 /\ val.n * den = num * val.d

\* larger than 1e50: n / d above 1/1000, times 10^e with e above 53
IsSentinel(val) == val.e > 53 /\ val.d > 0 /\ val.n * 1000 > val.d

OwnRate(ph) == well_state.wellRates[well.index_of_well][well.pu.phase_pos[ph]]

\* num / den, the sentinel when only den is 0, and 0 when both are
SentinelRule(val, num, den) ==
    /\ den # 0 => IsQuotient(val, num, den)
    /\ den = 0 /\ num # 0 => IsSentinel(val) /\ call.violated
    /\ den = 0 /\ num = 0 => val = Zero /\ ~call.violated

\* C14: gas-oil ratio is gas/oil, the sentinel (above 1e50, so that the
\* limit is judged violated) when oil is 0 and gas is not, and 0 when both
\* are 0; water-gas ratio likewise with water over gas; water cut is
\* water/(oil + water) and 0 when oil + water is 0.
C14_ZeroDenominator ==
    /\ IsRatio("gor") => ~call.failed /\ SentinelRule(call.val, OwnRate(Gas), OwnRate(Oil))
    /\ IsRatio("wgr") => ~call.failed /\ SentinelRule(call.val, OwnRate(Water), OwnRate(Gas))
    /\ IsRatio("wct") =>
          /\ ~call.failed
          /\ OwnRate(Oil) + OwnRate(Water) # 0 =>
                IsQuotient(call.val, OwnRate(Water), OwnRate(Oil) + OwnRate(Water))
          /\ OwnRate(Oil) + OwnRate(Water) = 0 => call.val = Zero /\ ~call.violated

\* gas flows, oil does not
C14_Witness ==
    /\ IsRatio("gor")
    /\ OwnRate(Oil) = 0
    /\ OwnRate(Gas) # 0
    /\ call.val = BigValue
    /\ call.violated

IsSelector == call.op = "checkMaxRatioLimitCompletions"

\* the rate of a phase summed over the connections of completion k (every
\* connection of the well is open, so the i-th one is perforation i - 1)
RECURSIVE CompletionRate(_, _, _)
CompletionRate(k, ph, i) ==
    IF i > Len(well.connections) THEN 0
    ELSE (IF well.connections[i].complnum = k
          THEN well_state.perfPhaseRates[(well.first_perf + i - 1) * well.pu.num_phases
                                         + well.pu.phase_pos[ph]]
          ELSE 0) + CompletionRate(k, ph, i + 1)

\* the ratio of completion k as a fraction; n = 1, d = 0 stands for "above
\* every limit", 0 / 1 for no flow
CompletionRatio(kind, k) ==
    LET w == Abs(CompletionRate(k, Water, 1))
        o == Abs(CompletionRate(k, Oil, 1))
        g == Abs(CompletionRate(k, Gas, 1))
        num == CASE kind = "wct" -> w [] kind = "gor" -> g [] kind = "wgr" -> w
        den == CASE kind = "wct" -> o + w [] kind = "gor" -> o [] kind = "wgr" -> g
    IN  IF den # 0 THEN [n |-> num, d |-> den]
        ELSE IF num # 0 THEN [n |-> 1, d |-> 0] ELSE [n |-> 0, d |-> 1]

AtLeast(a, b) == a.n * b.d >= b.n * a.d

CompletionNumbers == {well.completions[i].first : i \in 1 .. Len(well.completions)}

\* ext is the ratio r divided by the limit
IsExtent(ext, r, limit) ==
    IF r.d = 0 THEN IsSentinel(ext)
    ELSE ext.e = 0 /\ ext.n * (r.d * limit.n) = ext.d * (r.n * limit.d)

\* C15: with the well-level limit violated, the selector sums the rates of
\* each completion over its connections, one collective sum per
\* completion, evaluates the ratio of each and reports a completion of
\* maximum ratio with violation_extent = that ratio / limit; for water
\* cuts 0.3, 0.9, 0.6 and limit 0.5 it reports the second completion and
\* extent 1.8.
C15_WorstOffender ==
    IsSelector =>
        /\ ~call.failed
        /\ call.sums = Len(well.completions)
        /\ call.report.worst_offending_completion \in CompletionNumbers
        /\ \A k \in CompletionNumbers :
              AtLeast(CompletionRatio(call.kind, call.report.worst_offending_completion),
                      CompletionRatio(call.kind, k))
        /\ IsExtent(call.report.violation_extent,
                    CompletionRatio(call.kind, call.report.worst_offending_completion),
                    call.max_ratio_limit)
        /\ (/\ call.kind = "wct"
            /\ CompletionRatio("wct", 1) = [n |-> 6, d |-> 20]
            /\ CompletionRatio("wct", 2) = [n |-> 9, d |-> 10]
            /\ CompletionRatio("wct", 3) = [n |-> 6, d |-> 10])
              => /\ call.report.worst_offending_completion = 2
                 /\ call.report.violation_extent = Rat(18, 10, 0)

\* water cuts 0.3 (two connections), 0.9 and 0.6, limit 0.5
C15_Witness ==
    /\ IsSelector
    /\ call.kind = "wct"
    /\ call.max_ratio_limit = Rat(1, 2, 0)
    /\ CompletionRatio("wct", 1) = [n |-> 6, d |-> 20]
    /\ CompletionRatio("wct", 2) = [n |-> 9, d |-> 10]
    /\ CompletionRatio("wct", 3) = [n |-> 6, d |-> 10]
    /\ call.report.worst_offending_completion = 2
    /\ call.report.violation_extent = Rat(9, 5, 0)

-----------------------------------------------------------------------------
(* Properties of updateWellTestState.                                      *)

\* C16: for an injector and for a well not under prediction mode
\* updateWellTestState runs neither the physical nor the economic check
\* and leaves the ledger unchanged; a call that changed the ledger was on
\* a producer under prediction mode.
C16_OnlyPredictionProducers ==
    IsUpdate =>
        /\ well.isInjector \/ ~well.predictionMode =>
              call.ran = <<>> /\ well_test_state = call.pre /\ log = <<>>
        /\ well_test_state # call.pre => ~well.isInjector /\ well.predictionMode

\* a producer outside prediction mode, not operable and below its minimum
\* oil rate
C16_Witness ==
    /\ IsUpdate
    /\ ~well.isInjector
    /\ ~well.predictionMode
    /\ ~well.wellIsStopped
    /\ ~call.operable
    /\ MinRateViolated
    /\ call.write_message_to_opmlog
    /\ well_test_state = call.pre

-----------------------------------------------------------------------------
(* The unsupported policy flags of updateWellTestStateEconomic.            *)

Logged(code) == \E i \in 1..Len(log) : log[i] = Warning(code)

\* the call put the ECONOMIC closure of the well into the ledger
ClosedByCall == IsEcon /\ ClosedEconomic(well_test_state) /\ ~ClosedEconomic(call.pre)

\* C17: whenever updateWellTestStateEconomic closes a well whose limits
\* have the end-run flag, respectively a valid follow-on well, the same
\* call logs NOT_SUPPORTING_ENDRUN, respectively
\* NOT_SUPPORTING_FOLLOWONWELL, whichever path caused the closure.
C17_ClosureNeverSilent ==
    ClosedByCall =>
        /\ Limits.end_run => Logged("NOT_SUPPORTING_ENDRUN")
        /\ Limits.followon_well => Logged("NOT_SUPPORTING_FOLLOWONWELL")

-----------------------------------------------------------------------------
(* When checkConstraints asks the group evaluator.                         *)

\* checkIndividualConstraints returned true
IndividualFired == call.fired # "none"

\* C18: checkConstraints calls the group evaluator only when no individual
\* constraint fired and the current control mode of the well's role is not
\* GRUP, and then once, for the group the well belongs to; when an
\* individual constraint fired the evaluator is not called, and when the
\* well is in GRUP mode checkGroupConstraints returns false and leaves
\* WellState as it was.
C18_GroupEvaluatorCalls ==
    IsCheck =>
        /\ call.group_calls \in {0, 1}
        /\ call.group_calls = 1 =>
              /\ ~IndividualFired
              /\ ModeOf(call.pre) # "GRUP"
              /\ call.group = well.groupName
        /\ (~IndividualFired /\ ModeOf(call.pre) # "GRUP" /\ call.ret # "throw") =>
              call.group_calls = 1
        /\ IndividualFired => call.group_calls = 0 /\ call.ret = "true"
        /\ (~IndividualFired /\ ModeOf(call.pre) = "GRUP" /\ call.ret # "throw") =>
              /\ call.group_calls = 0
              /\ call.ret = "false"
              /\ well_state = call.pre

\* a well in GRUP mode none of whose other limits is violated
C18_Witness ==
    /\ IsCheck
    /\ ModeOf(call.pre) = "GRUP"
    /\ Candidates # {}
    /\ ~IndividualFired
    /\ call.ret = "false"
    /\ call.group_calls = 0
    /\ well_state = call.pre

-----------------------------------------------------------------------------
(* Direction of the comparisons of checkIndividualConstraints.             *)

InjLimit(m) ==
    CASE m = "BHP"  -> call.controls.bhp_limit
      [] m = "RATE" -> call.controls.surface_rate
      [] m = "RESV" -> call.controls.reservoir_rate
      [] m = "THP"  -> call.controls.thp_limit

\* the quantity an injector limit is compared with
InjValue(m) ==
    CASE m = "BHP"  -> call.pre.bhp[index_of_well_]
      [] m = "RATE" -> PreRate(InjectedPhase)
      [] m = "RESV" -> ActiveSum(call.pre.wellReservoirRates[index_of_well_])
      [] m = "THP"  -> call.pre.thp[index_of_well_]

\* the injector type names a phase
PhaseNamed(m) == m = "RATE" => call.controls.injector_type \in {"WATER", "OIL", "GAS"}

\* the call left checkIndividualConstraints before it came to control m
InjPreempted(m) ==
    \/ call.fired # "none" /\ InjRank(call.fired) < InjRank(m)
    \/ call.ret = "throw" /\ InjRank(m) > InjRank("RATE")

\* C19: for an injector a configured, not active limit fires only when the
\* limit is smaller than the current value (BHP: current BHP; RATE:
\* surface rate of the phase the injector type names; RESV: sum of the
\* reservoir rates of the active phases; THP: current THP), it fires
\* whenever that holds and the call comes to it, and a value equal to its
\* limit does not fire.
C19_InjectorDirections ==
    (IsCheck /\ well.isInjector) =>
        \A m \in Candidates :
            /\ call.fired = m => PhaseNamed(m) /\ InjLimit(m) < InjValue(m)
            /\ (PhaseNamed(m) /\ InjValue(m) = InjLimit(m)) => call.fired # m
            /\ (PhaseNamed(m) /\ InjLimit(m) < InjValue(m) /\ ~InjPreempted(m)) => call.fired = m

\* reservoir rates that sum to the limit exactly, and a THP above its limit
C19_Witness ==
    /\ IsCheck /\ well.isInjector
    /\ Candidates = {"RESV", "THP"}
    /\ InjValue("RESV") = InjLimit("RESV")
    /\ InjLimit("THP") < InjValue("THP")
    /\ call.fired = "THP"
    /\ call.ret = "true"

ProdLimit(m) ==
    CASE m = "BHP"  -> call.controls.bhp_limit
      [] m = "ORAT" -> call.controls.oil_rate
      [] m = "WRAT" -> call.controls.water_rate
      [] m = "GRAT" -> call.controls.gas_rate
      [] m = "LRAT" -> call.controls.liquid_rate
      [] m = "THP"  -> call.controls.thp_limit

\* the quantity a producer limit is compared with: minus the stored rates,
\* and the pressures
ProdValue(m) ==
    CASE m = "BHP"  -> call.pre.bhp[index_of_well_]
      [] m = "ORAT" -> 0 - PreRate(Liquid)
      [] m = "WRAT" -> 0 - PreRate(Aqua)
      [] m = "GRAT" -> 0 - PreRate(Vapour)
      [] m = "LRAT" -> 0 - (PreRate(Liquid) + PreRate(Aqua))
      [] m = "THP"  -> call.pre.thp[index_of_well_]

\* rate limits are maxima, pressure limits minima
ProdBeyond(m) ==
    IF m \in {"BHP", "THP"} THEN ProdLimit(m) > ProdValue(m) ELSE ProdLimit(m) < ProdValue(m)

ProdPreempted(m) == call.fired # "none" /\ ProdRank(call.fired) < ProdRank(m)

\* C20: for a producer a configured, not active ORAT, WRAT, GRAT or LRAT
\* limit fires only when the limit is smaller than minus the stored oil,
\* water, gas or oil plus water rate, a BHP or THP limit only when the
\* limit is greater than the current BHP or THP; the limit fires whenever
\* that holds and the call comes to it, and a value equal to its limit
\* does not fire.
C20_ProducerDirections ==
    (IsCheck /\ ~well.isInjector) =>
        \A m \in Candidates \ {"RESV"} :
            /\ call.fired = m => ProdBeyond(m)
            /\ ProdValue(m) = ProdLimit(m) => call.fired # m
            /\ (ProdBeyond(m) /\ ~ProdPreempted(m)) => call.fired = m

\* a liquid rate equal to its limit and a THP below its minimum
C20_Witness ==
    /\ IsCheck /\ ~well.isInjector
    /\ Candidates = {"LRAT", "THP"}
    /\ ProdValue("LRAT") = ProdLimit("LRAT")
    /\ ProdValue("LRAT") > 0
    /\ ProdLimit("THP") > ProdValue("THP")
    /\ call.fired = "THP"
    /\ well_state.currentProductionControl[index_of_well_] = "THP"

\* minus the sum of the reservoir-voidage rates over the active phases
ProdResvObserved == 0 - ActiveSum(call.pre.wellReservoirRates[index_of_well_])

\* C21: for a producer with a configured, not active RESV control the
\* observed value is minus the sum of the reservoir rates of the active
\* phases; under prediction mode RESV fires iff resv_rate is smaller than
\* it, under rate-target mode resv_rate is ignored and RESV fires iff the
\* sum of the converted target surface rates is smaller than it (when the
\* call comes to RESV).
C21_ProducerResv ==
    (IsCheck /\ ~well.isInjector /\ "RESV" \in Candidates) =>
        /\ call.fired = "RESV" =>
              /\ ProdResvLimit < ProdResvObserved
              /\ well_state.currentProductionControl[index_of_well_] = "RESV"
        /\ (ProdResvLimit < ProdResvObserved /\ ~ProdPreempted("RESV")) => call.fired = "RESV"
        /\ call.controls.prediction_mode =>
              (call.fired = "RESV" => call.controls.resv_rate < ProdResvObserved)

\* rate-target mode: the observed value does not exceed resv_rate, it
\* exceeds the converted targets, and RESV fires
C21_Witness ==
    /\ IsCheck /\ ~well.isInjector /\ "RESV" \in Candidates
    /\ ~call.controls.prediction_mode
    /\ call.controls.resv_rate >= ProdResvObserved
    /\ ProdResvLimit < ProdResvObserved
    /\ call.fired = "RESV"

-----------------------------------------------------------------------------
(* The minimum-rate verdict.                                               *)

IsRateCheck == call.op = "checkRateEconLimits"

\* C22: the minimum-rate verdict is true iff an enabled minimum (oil, gas,
\* liquid = oil + water) is strictly greater than the absolute value of
\* its quantity, taken from the potentials under POTN and from the surface
\* rates otherwise; reversing the sign of the stored values leaves the
\* verdict as it is.
C22_MinRateVerdict ==
    IsRateCheck =>
        /\ ~call.failed
        /\ call.violated <=>
              \/ Limits.min_oil_rate > 0 /\ Limits.min_oil_rate > Abs(Quantity(Oil))
              \/ Limits.min_gas_rate > 0 /\ Limits.min_gas_rate > Abs(Quantity(Gas))
              \/ Limits.min_liquid_rate > 0
                    /\ Limits.min_liquid_rate > Abs(Quantity(Oil) + Quantity(Water))
        /\ call.mirror = call.violated

\* potentials below the minimum oil rate with healthy positive rates
C22_Witness ==
    /\ IsRateCheck
    /\ Limits.quantity_limit = "POTN"
    /\ Limits.min_oil_rate > 0
    /\ well_state.wellRates[index_of_well_][phaseUsage.phase_pos[Oil]] = 9
    /\ Quantity(Oil) = -1
    /\ call.violated

-----------------------------------------------------------------------------
(* Properties of the report of checkRatioEconLimits.                       *)

IsReport == call.op = "checkRatioEconLimits"

PerfRate(i, ph) ==
    well_state.perfPhaseRates[(well.first_perf + i - 1) * well.pu.num_phases
                              + well.pu.phase_pos[ph]]

\* the well-level rates are the sums of the connections' rates
RatesAreSums ==
    \A ph \in Phases :
        well_state.wellRates[well.index_of_well][well.pu.phase_pos[ph]]
            = SumVec([i \in 0 .. (Len(well.connections) - 1) |-> PerfRate(i + 1, ph)],
                     Len(well.connections))

\* no two rates of the well or of its connections have opposite signs
SameSign ==
    LET all == {well_state.wellRates[well.index_of_well][well.pu.phase_pos[ph]] : ph \in Phases}
                  \cup {PerfRate(i, ph) : i \in 1 .. Len(well.connections), ph \in Phases}
    IN  (\A x \in all : x >= 0) \/ (\A x \in all : x <= 0)

\* C23: a report of checkRatioEconLimits that says ratio_limit_violated
\* names a completion and has an extent above 1; when the well rates are
\* the sums of the connections' rates and no two rates have opposite
\* signs, no assertion of the evaluation fails.
C23_ReportConsistent ==
    IsReport =>
        /\ (~call.failed /\ call.report.ratio_limit_violated) =>
              /\ call.report.worst_offending_completion # INVALIDCOMPLETION
              /\ call.report.worst_offending_completion \in CompletionNumbers
              /\ RatGreater(call.report.violation_extent, One)
        /\ (RatesAreSums /\ SameSign) => ~call.failed

\* three completions produce oil and the report names the third
C23_Witness ==
    /\ IsReport
    /\ RatesAreSums /\ SameSign
    /\ ~call.failed
    /\ call.report.ratio_limit_violated
    /\ Cardinality({k \in CompletionNumbers : CompletionRate(k, Oil, 1) # 0}) = 3
    /\ call.report.worst_offending_completion = 3
    /\ RatGreater(call.report.violation_extent, One)

\* numerator and denominator of a ratio kind, as magnitudes
KindNum(kind, w, o, g) == CASE kind = "wct" -> w [] kind = "gor" -> g [] kind = "wgr" -> w
KindDen(kind, w, o, g) == CASE kind = "wct" -> o + w [] kind = "gor" -> o [] kind = "wgr" -> g

\* num / den as a number: 1e100 when only den is 0
KindValue(num, den) ==
    IF den # 0 THEN Rat(num, den, 0) ELSE IF num # 0 THEN BigValue ELSE Zero

WellKindValue(kind) ==
    KindValue(KindNum(kind, WellRate(Water), WellRate(Oil), WellRate(Gas)),
              KindDen(kind, WellRate(Water), WellRate(Oil), WellRate(Gas)))

CompletionKindValue(kind, k) ==
    KindValue(KindNum(kind, Abs(CompletionRate(k, Water, 1)), Abs(CompletionRate(k, Oil, 1)),
                      Abs(CompletionRate(k, Gas, 1))),
              KindDen(kind, Abs(CompletionRate(k, Water, 1)), Abs(CompletionRate(k, Oil, 1)),
                      Abs(CompletionRate(k, Gas, 1))))

KindLimit(kind) ==
    CASE kind = "wct" -> Limits.max_water_cut
      [] kind = "gor" -> Limits.max_gas_oil_ratio
      [] kind = "wgr" -> Limits.max_water_gas_ratio

\* the kinds whose limit is on and which the well as a whole is over
ViolatedKinds ==
    {kind \in {"wct", "gor", "wgr"} :
        KindLimit(kind).n > 0 /\ RatGreater(WellKindValue(kind), KindLimit(kind))}

\* the completions of largest ratio of a kind
WorstOfKind(kind) ==
    {k \in CompletionNumbers :
        \A j \in CompletionNumbers :
            ~RatGreater(CompletionKindValue(kind, j), CompletionKindValue(kind, k))}

\* the extent of a kind: its largest completion ratio over its limit
KindExtent(kind) ==
    RatDiv(CompletionKindValue(kind, CHOOSE k \in WorstOfKind(kind) : TRUE), KindLimit(kind))

\* C24: with several ratio kinds violated in one call the report holds the
\* extent of the kind of largest extent (largest completion ratio divided
\* by the kind's limit) and a worst completion of that kind, whatever the
\* order of the kinds; kinds of equal extent aside.
C24_WorstAcrossKinds ==
    (IsReport /\ ~call.failed /\ call.report.ratio_limit_violated) =>
        /\ ViolatedKinds # {}
        /\ \A kind \in ViolatedKinds :
              ~RatGreater(KindExtent(kind), call.report.violation_extent)
        /\ \E kind \in ViolatedKinds :
              /\ call.report.violation_extent = KindExtent(kind)
              /\ call.report.worst_offending_completion \in WorstOfKind(kind)

\* water cut (checked first) has the larger extent 1.2, water-gas ratio
\* the smaller, 12/11
C24_Witness ==
    /\ IsReport /\ ~call.failed
    /\ ViolatedKinds = {"wct", "wgr"}
    /\ KindExtent("wct") = Rat(6, 5, 0)
    /\ KindExtent("wgr") = Rat(12, 11, 0)
    /\ call.report.violation_extent = Rat(6, 5, 0)
    /\ call.report.worst_offending_completion = 1

-----------------------------------------------------------------------------
(* The same-direction precondition of the ratio lambdas.                   *)

IsLambda == call.op = "ratioFunc" /\ call.level \in {"well", "completion"}

\* the two rates a kind is made of, as the lambda reads them
FirstRate(kind) ==
    call.rates[phaseUsage.phase_pos[IF kind = "gor" THEN Oil ELSE Water]]
SecondRate(kind) ==
    call.rates[phaseUsage.phase_pos[IF kind = "wct" THEN Oil ELSE Gas]]

OppositeSigns(a, b) == (a < 0 /\ b > 0) \/ (a > 0 /\ b < 0)

\* C25: each of the three ratio lambdas fails its assertion exactly when
\* its two rates have strictly opposite signs, for the rates of the well
\* and for the rates of a completion alike; with one rate zero or both of
\* one sign it returns a value.
C25_SameDirection ==
    IsLambda =>
        (call.failed <=> OppositeSigns(FirstRate(call.kind), SecondRate(call.kind)))

\* a completion whose water is zero while its gas flows is accepted by the
\* water-gas ratio
C25_Witness ==
    /\ IsLambda
    /\ call.level = "completion"
    /\ call.kind = "wgr"
    /\ FirstRate("wgr") = 0 /\ SecondRate("wgr") = -4
    /\ ~call.failed
    /\ call.val = Zero

-----------------------------------------------------------------------------
(* The two sub-checks of updateWellTestState.                              *)

ClosedPhysical(wts) ==
    \E w \in wts.wells : w.name = well.name /\ w.reason = "PHYSICAL" /\ w.closed

\* C26: for a producer under prediction mode updateWellTestState runs the
\* physical check, then the economic check, the second whether or not the
\* first closed the well: the ledger after the physical check holds its
\* closure and no new economic one, and the economic check then closes
\* the well on a violated minimum rate also when the physical check has
\* closed it.
C26_PhysicalThenEconomic ==
    (IsUpdate /\ ~well.isInjector /\ well.predictionMode) =>
        /\ call.ran = <<"physical", "economic">>
        /\ Kept(call.pre, call.mid) /\ Kept(call.mid, well_test_state)
        /\ ~call.operable => ClosedPhysical(call.mid)
        /\ ClosedEconomic(call.mid) = ClosedEconomic(call.pre)
        /\ call.mid.completions = call.pre.completions
        /\ (~well.wellIsStopped /\ MinRateViolated) => ClosedEconomic(well_test_state)

\* both sub-checks close the well in one call
C26_Witness ==
    /\ IsUpdate /\ ~well.isInjector /\ well.predictionMode
    /\ ~call.operable
    /\ ~ClosedPhysical(call.pre) /\ ~ClosedEconomic(call.pre)
    /\ ClosedPhysical(call.mid) /\ ~ClosedEconomic(call.mid)
    /\ ClosedPhysical(well_test_state) /\ ClosedEconomic(well_test_state)

-----------------------------------------------------------------------------
(* The unsupported limits: maximum gas-liquid ratio and minimum            *)
(* reservoir-fluid rate.                                                   *)

UnsupportedLimits == {"max_gas_liquid_ratio", "min_reservoir_fluid_rate"}

EvaluatorRan == IsEcon /\ ~well.wellIsStopped

\* C27 (as claimed): whenever the economic evaluator runs on a not-stopped
\* well with a maximum gas-liquid ratio or a minimum reservoir-fluid rate
\* configured it logs NOT_SUPPORTING_MAX_GLR, respectively
\* NOT_SUPPORTING_MIN_RESERVOIR_FLUID_RATE, returns without an error, and
\* that limit alone closes neither the well nor a completion.
C27_AlwaysWarns ==
    EvaluatorRan =>
        /\ call.outcome = "returned"
        /\ "max_gas_liquid_ratio" \in EffectiveLimits => Logged("NOT_SUPPORTING_MAX_GLR")
        /\ "min_reservoir_fluid_rate" \in EffectiveLimits =>
              Logged("NOT_SUPPORTING_MIN_RESERVOIR_FLUID_RATE")
        /\ (EffectiveLimits # {} /\ EffectiveLimits \subseteq UnsupportedLimits) =>
              well_test_state = call.pre

\* C27 (amended): the warning of a configured unsupported limit is logged
\* exactly when no minimum oil, gas or liquid rate is violated in the
\* call; a violated minimum rate closes the well before either warning is
\* reached.  The call returns without an error, and the unsupported limits
\* alone leave the ledger as it was.
C27_WarnsUnlessRateClosure ==
    EvaluatorRan =>
        /\ call.outcome = "returned"
        /\ "max_gas_liquid_ratio" \in EffectiveLimits =>
              (Logged("NOT_SUPPORTING_MAX_GLR") <=> ~MinRateViolated)
        /\ "min_reservoir_fluid_rate" \in EffectiveLimits =>
              (Logged("NOT_SUPPORTING_MIN_RESERVOIR_FLUID_RATE") <=> ~MinRateViolated)
        /\ (EffectiveLimits # {} /\ EffectiveLimits \subseteq UnsupportedLimits) =>
              /\ well_test_state = call.pre
              /\ Len(log) = Cardinality(EffectiveLimits)

\* a gas-liquid ratio limit next to a violated minimum oil rate: the well
\* is closed and the warning is not logged
C27_Witness ==
    /\ EvaluatorRan
    /\ EffectiveLimits = {"max_gas_liquid_ratio", "min_oil_rate"}
    /\ MinRateViolated
    /\ ClosedByCall
    /\ ~Logged("NOT_SUPPORTING_MAX_GLR")

-----------------------------------------------------------------------------
(* The collective sums of a well on several ranks.                         *)

IsRanks == call.op = "ranks"

RankLeft(r) == call.rank[r].pc \in {"done", "assert"}

\* C28: on a well whose connections lie on several ranks, with the same
\* completions, well rates and limits on every rank, no rank waits in a
\* sum that another rank has left the call without entering; all ranks
\* inside the sum are at the same completion of the same kind; and every
\* rank ends with one sum per completion for each violated ratio kind,
\* none when the rate limit closes the well.
C28_SumsInLockStep ==
    IsRanks =>
        /\ \A r1, r2 \in Ranks :
              call.rank[r1].pc = "sum" =>
                  /\ ~RankLeft(r2)
                  /\ call.rank[r2].sums = call.rank[r1].sums
                  /\ call.rank[r2].pc = "sum" =>
                        /\ call.rank[r2].sums = call.rank[r1].sums
                        /\ call.rank[r2].k = call.rank[r1].k
                        /\ call.rank[r2].i = call.rank[r1].i
        /\ \A r \in Ranks :
              RankLeft(r) =>
                  /\ call.rank[r].pc = "done"
                  /\ call.rank[r].sums = IF MinRateViolated THEN 0
                                         ELSE Len(well.completions) * Cardinality(ViolatedKinds)

\* both kinds violated; the second rank, which holds no connection of the
\* second completion, has made its four sums
C28_Witness ==
    /\ IsRanks
    /\ \E c \in 1 .. Len(well.connections) : well.owner[c] # 1
    /\ Cardinality(ViolatedKinds) = 2
    /\ call.rank[NumRanks].pc = "done"
    /\ call.rank[NumRanks].sums = 4
    /\ call.rank[1].pc = "done"

-----------------------------------------------------------------------------
(* Progress of the workover CON over successive calls.                     *)

\* the rate of a phase summed over the open connections of completion k;
\* the open connections are the perforations, in their order
RECURSIVE OpenCompletionRate(_, _, _)
OpenCompletionRate(k, ph, i) ==
    IF i > Len(well.connections) THEN 0
    ELSE (IF well.connections[i].state = "OPEN" /\ well.connections[i].complnum = k
          THEN well_state.perfPhaseRates[(well.first_perf + OpenBefore(well.connections, i))
                                            * well.pu.num_phases + well.pu.phase_pos[ph]]
          ELSE 0) + OpenCompletionRate(k, ph, i + 1)

OwnClosed(wts) == {c.complnum : c \in {x \in wts.completions : x.name = well.name}}

\* the completions the ledger holds closed do not flow
ClosedDoNotFlow(wts) ==
    \A k \in OwnClosed(wts), ph \in Phases : OpenCompletionRate(k, ph, 1) = 0

\* C29: under workover CON a call on a not-stopped well that finds a ratio
\* limit violated while the completions recorded closed do not flow closes
\* one completion that was not closed before; the closed completions are
\* never more than the completions of the well, and the call that closes
\* the last of them records the well closed: so at most as many such calls
\* as the well has completions.
C29_ConProgress ==
    (/\ IsEcon /\ ~well.wellIsStopped /\ Limits.workover = "CON"
     /\ call.outcome = "returned" /\ call.report.ratio_limit_violated
     /\ ClosedDoNotFlow(call.pre)) =>
        /\ OwnClosed(call.pre) \subseteq OwnClosed(well_test_state)
        /\ Cardinality(OwnClosed(well_test_state)) = Cardinality(OwnClosed(call.pre)) + 1
        /\ OwnClosed(well_test_state) \subseteq CompletionNumbers
        /\ OwnClosed(well_test_state) = CompletionNumbers => ClosedEconomic(well_test_state)

\* the second call of a well of two completions
C29_Witness ==
    /\ IsEcon /\ ~well.wellIsStopped /\ Limits.workover = "CON"
    /\ call.report.ratio_limit_violated
    /\ Cardinality(CompletionNumbers) = 2
    /\ Cardinality(OwnClosed(call.pre)) = 1
    /\ ClosedDoNotFlow(call.pre)
    /\ ~ClosedEconomic(call.pre)
    /\ OwnClosed(well_test_state) = CompletionNumbers
    /\ ClosedEconomic(well_test_state)

-----------------------------------------------------------------------------
(* The report of checkRatioEconLimits and the ledger.                      *)

\* both calls came to checkRatioEconLimits
BothEvaluated == IsSecond /\ call.ratio_evaluated /\ call.first.ratio_evaluated

\* C30: two evaluations of the ratio limits with the same rates and limits
\* give the same report whatever the ledger holds: worst offending
\* completion and violation extent do not depend on WellTestState, and a
\* completion the ledger already holds closed is reported again.
C30_ReportIgnoresLedger ==
    BothEvaluated =>
        /\ call.report = call.first.report
        /\ call.outcome = "returned"
        /\ (call.report.ratio_limit_violated /\ Limits.workover = "CON") =>
              call.report.worst_offending_completion \in OwnClosed(call.pre)

\* the first call closed a completion, the second, on a different ledger,
\* reports it again
C30_Witness ==
    /\ BothEvaluated
    /\ call.pre # call.first.pre
    /\ call.report.ratio_limit_violated
    /\ call.report.worst_offending_completion \notin OwnClosed(call.first.pre)
    /\ call.report.worst_offending_completion \in OwnClosed(call.pre)
    /\ call.report = call.first.report

-----------------------------------------------------------------------------
(* Ties and non-positive ratios in the worst-offender selector.            *)

\* the place of completion k in the iteration over completions_
PlaceOf(k) == CHOOSE i \in 1 .. Len(well.completions) : well.completions[i].first = k

\* the completions whose ratio is above 0
PositiveRatio(kind) == {k \in CompletionNumbers : CompletionRatio(kind, k).n > 0}

\* the completions whose ratio equals that of k
EqualRatio(kind, k) ==
    {j \in CompletionNumbers :
        /\ AtLeast(CompletionRatio(kind, j), CompletionRatio(kind, k))
        /\ AtLeast(CompletionRatio(kind, k), CompletionRatio(kind, j))}

\* C31: the selector reports, among the completions whose ratio equals the
\* maximum, the first in the iteration order of the completion map; a
\* completion whose ratio is 0 or below is never reported; with no
\* completion of positive ratio none is identified and the evaluation stops
\* at an assertion.
C31_TiesAndNonPositive ==
    IsSelector =>
        /\ ~call.failed =>
              /\ call.report.worst_offending_completion \in PositiveRatio(call.kind)
              /\ \A j \in EqualRatio(call.kind, call.report.worst_offending_completion) :
                    PlaceOf(call.report.worst_offending_completion) <= PlaceOf(j)
        /\ PositiveRatio(call.kind) = {} =>
              /\ call.failed
              /\ call.report.worst_offending_completion = INVALIDCOMPLETION

\* completion 1 does not flow, completions 2 and 3 have the same water cut
\* 0.9; the connection of completion 3 is listed first, completion 2 comes
\* first in the map and is reported
C31_Witness ==
    /\ IsSelector
    /\ call.kind = "wct"
    /\ ~call.failed
    /\ CompletionRatio("wct", 1) = [n |-> 0, d |-> 1]
    /\ CompletionRatio("wct", 2) = [n |-> 9, d |-> 10]
    /\ CompletionRatio("wct", 3) = [n |-> 9, d |-> 10]
    /\ well.connections[1].complnum = 3
    /\ call.report.worst_offending_completion = 2

\* no completion produces water while the well rates say the water cut is
\* violated: nothing is identified
C31_NoneIdentified ==
    /\ IsSelector
    /\ PositiveRatio(call.kind) = {}
    /\ call.failed

====
